---- MODULE Spec2Model ----
(***************************************************************************)
(* Model of the multi-account gateway client (MultiAccountClient):         *)
(* credential selection (getAvailableAccount), the recursive retry and     *)
(* failover logic of generateResponse / generateImage, and the accounting  *)
(* done after a completed call.  One logical request of one user is        *)
(* followed from its first selection to its outcome, next to the           *)
(* environment (token ageing, quota polling, administrative status flips). *)
(***************************************************************************)
EXTENDS Integers, Sequences, FiniteSets, TLC

\* ------------------------------------------------------------------ bounds
\* number of rows in the accounts table
NumCreds == 5
\* largest number of distinct markers one upstream error body carries
MaxMarkers == 2
\* number of environment steps (token expiry, quota poll, status flip) in a run
MaxEnv == 1
\* a remaining fraction of 1.0, counted in units of 1/MaxQuota
MaxQuota == 2
\* largest excludeCookieIds list a getAvailableAccount call followed on its own gets
MaxExcluded == 2

\* ------------------------------------------------------- program constants
\* API_ENDPOINTS.length
EndpointCount == 3
\* MAX_RETRY_COUNT of generateResponse
MAX_RETRY_COUNT == 5
\* MAX_RETRY_COUNT of generateImage
MAX_RETRY_COUNT_IMAGE == 3

Creds == 1..NumCreds
NoAccount == 0

\* accounts.is_shared: odd rows are dedicated accounts of the requesting user,
\* even rows are shared accounts
is_shared(c) == IF c % 2 = 0 THEN 1 ELSE 0

\* substrings the error classification looks for in responseText
\* (a body is the set of the markers it contains); with each status come the
\* markers the branches reached for that status test
Markers(st) ==
  IF st = 403 THEN {"PERMISSION"}
  ELSE IF st = 400 THEN {"QUOTA", "IMAGE_5MB", "PROJECT_INVALID", "INVALID_ARGUMENT"}
  ELSE IF st = 429 THEN {"QUOTA"}
  ELSE {"QUOTA", "INTERNAL"}
Statuses == {400, 403, 429, 500}
Responses ==
  UNION {[status : {st}, body : {b \in SUBSET Markers(st) : Cardinality(b) <= MaxMarkers}]
         : st \in Statuses}

VARIABLES
  status,             \* accounts.status        (1 = enabled, 0 = disabled)
  need_refresh,       \* accounts.need_refresh  (1 = needs reauthorization)
  expired,            \* isTokenExpired(account) at the present time
  quota,              \* cached remaining fraction of the requested model, per account
  pool,               \* user_shared_quota_pool.quota of the requesting user
  records,            \* quota_consumption_log
  envSteps,           \* environment steps taken so far
  pc,                 \* "idle", "sending" (an attempt is in flight), "done"
  kind,               \* "chat" (generateResponse) or "image" (generateImage)
  prefer_shared,      \* user.prefer_shared
  account,            \* the account of the attempt in flight
  quotaBefore,        \* quotaBefore of the attempt in flight
  excludeCookieIds,   \* excludeCookieIds of the innermost call
  retryCount,         \* retryCount of the innermost call
  endpointIndex,      \* endpointIndex of the innermost call
  firstError403Type,  \* firstError403Type of the innermost call
  catchStack,         \* try/catch blocks of the outer calls awaiting the innermost one
  events,             \* what callback has received
  outcome,            \* how the outermost call ended
  tried,              \* accounts an attempt of this request was sent with
  selectCall,         \* what the token refresher did in the last getAvailableAccount
                      \* call followed on its own
  poolRows,           \* user_shared_quota_pool: user -> [quota, max_quota], in tenths
  sharedAccounts,     \* per user, the number of enabled and of disabled shared accounts
  recoveredCount,     \* what the last recoverAllUserSharedQuotas returned
  txns,               \* statements on a pool row that have read and not yet written
  history,            \* the pool row before the racing statements, and those written
  client,             \* the function that reads the response stream
  frames,             \* the response stream as the upstream encoded it
  upstream,           \* what the upstream has still to send on the response stream
  buffer,             \* buffer of the stream handler
  toolCalls,          \* toolCalls of the text stream loop
  toolCallIndexMap,   \* toolCallIndexMap of handleStreamResponse
  indexCounter,       \* indexCounter.value of handleStreamResponse
  project,            \* requestBody.project of the request under way
  inflight,           \* calls of generateResponse between their quotaBefore and their record
  remaining,          \* remainingFraction of each account at the upstream
  arg,                \* the argument handed to a converter
  result              \* what the converter returned, and its argument afterwards

store == <<status, need_refresh, expired, quota, pool, records>>
request == <<pc, kind, prefer_shared, account, quotaBefore, excludeCookieIds, retryCount,
             endpointIndex, firstError403Type, catchStack, events, outcome, tried,
             selectCall, project>>
\* the pool ledger and the two stream parsers, each followed by a specification
\* of its own
ledger == <<poolRows, sharedAccounts, recoveredCount, txns, history>>
parser == <<client, frames, upstream, buffer, toolCalls, toolCallIndexMap, indexCounter>>
\* the metering of concurrent requests and the converters of the request body
bench == <<inflight, remaining, arg, result>>
aside == <<ledger, parser, bench>>
vars == <<status, need_refresh, expired, quota, pool, records, envSteps,
          pc, kind, prefer_shared, account, quotaBefore, excludeCookieIds, retryCount,
          endpointIndex, firstError403Type, catchStack, events, outcome, tried,
          selectCall, poolRows, sharedAccounts, recoveredCount, txns, history,
          client, frames, upstream, buffer, toolCalls, toolCallIndexMap, indexCounter,
          project, inflight, remaining, arg, result>>

\* nothing under way on the ledger or in a parser
LedgerAtRest ==
  /\ poolRows = <<>>
  /\ sharedAccounts = <<>>
  /\ recoveredCount = 0
  /\ txns = {}
  /\ history = <<>>
ParserAtRest ==
  /\ client = "none"
  /\ frames = <<>>
  /\ upstream = <<>>
  /\ buffer = <<>>
  /\ toolCalls = <<>>
  /\ toolCallIndexMap = <<>>
  /\ indexCounter = 0
BenchAtRest ==
  /\ inflight = {}
  /\ remaining = <<>>
  /\ arg = <<>>
  /\ result = <<>>

\* requestBody.project as generateRequestBody made it without an account
GeneratedProject == 0

\* ------------------------------------------------------------ the services
\* getAvailableAccounts without the condition on status
getAvailableAccountsAnyStatus(st, nr, shared) ==
  {c \in Creds : nr[c] = 0 /\ is_shared(c) = shared}

\* getAvailableAccounts without the condition on need_refresh
getAvailableAccountsIgnoringNeedRefresh(st, nr, shared) ==
  {c \in Creds : st[c] = 1 /\ is_shared(c) = shared}

\* AccountService.getAvailableAccounts: status = 1 AND need_refresh = 0 AND is_shared = ?
getAvailableAccounts(st, nr, shared) ==
  {c \in Creds : st[c] = 1 /\ nr[c] = 0 /\ is_shared(c) = shared}

\* updateAccountStatus leaving the row as it is
updateAccountStatusSkipped(st, c, v) == st

\* AccountService.updateAccountStatus
updateAccountStatus(st, c, v) == [st EXCEPT ![c] = v]

\* AccountService.isTokenExpired
isTokenExpired(ex, c) == ex[c]

\* quotaService.isModelAvailable: the availability flag, fraction > 0
isModelAvailable(c) == quota[c] > 0

\* the hasQuota loop: some model of the sharing group has pool quota > 0
hasQuota == pool > 0

\* the refreshed token is not stored
updateAccountTokenSkipped(ex, c) == ex

\* AccountService.updateAccountToken: the stored token and expiry are the new ones
updateAccountToken(ex, c) == [ex EXCEPT ![c] = FALSE]

\* AccountService.markAccountNeedRefresh: need_refresh = 1 (with status = 0)
markAccountNeedRefresh(nr, c) == [nr EXCEPT ![c] = 1]

\* what the token refresher did during one call of getAvailableAccount: whether the
\* token of the returned account was refreshed, and the accounts whose refresh
\* failed, by kind of failure
NoRefresh == [refreshed |-> FALSE, invalid_grant |-> {}, refresh_error |-> {}]

\* outcome of a selection: the account returned (NoAccount when it throws), the
\* accounts table it leaves behind and what the token refresher did
SelectResult(c, st, nr, ex) ==
  [account |-> c, status |-> st, need_refresh |-> nr, expired |-> ex, refresh |-> NoRefresh]

\* refreshAccessToken resolved for the account returned
Refreshed(o) == [o EXCEPT !.refresh.refreshed = TRUE]
\* refreshError.isInvalidGrant for account c, before the outcomes outs of the retry
InvalidGrant(c, outs) == {[o EXCEPT !.refresh.invalid_grant = @ \cup {c}] : o \in outs}
\* any other refreshError for account c, before the outcomes outs of the retry
RefreshError(c, outs) == {[o EXCEPT !.refresh.refresh_error = @ \cup {c}] : o \in outs}

\* no account is filtered out
notExcludedKeepsAll(accounts, excl) == accounts

\* accounts.filter(acc => !excludeCookieIds.includes(acc.cookie_id))
notExcluded(accounts, excl) == accounts \ excl

\* the availableAccounts loop without the check of the user's shared pool
availableAccountsIgnoringPool(accounts) == {c \in accounts : isModelAvailable(c)}

\* the availableAccounts loop: the model is available on the account and, for a
\* shared account, the user's shared pool has quota
availableAccounts(accounts) ==
  {c \in accounts : isModelAvailable(c) /\ (is_shared(c) = 1 => hasQuota)}

\* every available account is in the pool, whatever the preference
selectedPoolAnyKind(available, preferShared) == available

\* selectedPool: the accounts of the preferred kind, the others when there is none
selectedPool(available, preferShared) ==
  LET sharedAvailable == {c \in available : is_shared(c) = 1}
      dedicatedAvailable == {c \in available : is_shared(c) = 0}
  IN IF preferShared = 1
       THEN (IF sharedAvailable # {} THEN sharedAvailable ELSE dedicatedAvailable)
       ELSE (IF dedicatedAvailable # {} THEN dedicatedAvailable ELSE sharedAvailable)

\* getAvailableAccount without the filter on excludeCookieIds
RECURSIVE getAvailableAccountUnfiltered(_, _, _, _, _)
getAvailableAccountUnfiltered(st, nr, ex, preferShared, excl) ==
  LET accounts == getAvailableAccounts(st, nr, 0) \cup getAvailableAccounts(st, nr, 1)
      available == availableAccounts(accounts)
  IN IF available = {}
       THEN {SelectResult(NoAccount, st, nr, ex)}
       ELSE UNION {
         IF isTokenExpired(ex, c)
           THEN {Refreshed(SelectResult(c, st, nr, updateAccountToken(ex, c)))}
                \cup InvalidGrant(c,
                       getAvailableAccountUnfiltered(updateAccountStatus(st, c, 0), nr, ex,
                                                     preferShared, excl \cup {c}))
                \cup RefreshError(c,
                       getAvailableAccountUnfiltered(updateAccountStatus(st, c, 0),
                                                     markAccountNeedRefresh(nr, c), ex,
                                                     preferShared, excl \cup {c}))
           ELSE {SelectResult(c, st, nr, ex)}
         : c \in selectedPool(available, preferShared) }

\* MultiAccountClient.getAvailableAccount: every outcome the random pick and the
\* token refresher allow
RECURSIVE getAvailableAccount(_, _, _, _, _)
getAvailableAccount(st, nr, ex, preferShared, excl) ==
  LET accounts ==
        notExcluded(getAvailableAccounts(st, nr, 0) \cup getAvailableAccounts(st, nr, 1), excl)
      available == availableAccounts(accounts)
  IN IF available = {}
       THEN {SelectResult(NoAccount, st, nr, ex)}
       ELSE UNION {
         IF isTokenExpired(ex, c)
           THEN \* refreshAccessToken succeeds: updateAccountToken
                {Refreshed(SelectResult(c, st, nr, updateAccountToken(ex, c)))}
                \* invalid_grant: updateAccountStatus(cookie_id, 0), then the next account
                \cup InvalidGrant(c,
                       getAvailableAccount(updateAccountStatus(st, c, 0), nr, ex,
                                           preferShared, excl \cup {c}))
                \* any other failure: markAccountNeedRefresh, then the next account
                \cup RefreshError(c,
                       getAvailableAccount(updateAccountStatus(st, c, 0),
                                           markAccountNeedRefresh(nr, c), ex,
                                           preferShared, excl \cup {c}))
           ELSE {SelectResult(c, st, nr, ex)}
         : c \in selectedPool(available, preferShared) }

\* ------------------------------------------------------------------- Init
Init ==
  /\ status = [c \in Creds |-> 1]
  /\ need_refresh = [c \in Creds |-> 0]
  /\ expired = [c \in Creds |-> FALSE]
  /\ quota = [c \in Creds |-> MaxQuota]
  \* the user's pool: empty, or less than the full quota of one account
  /\ pool \in {0, MaxQuota - 1}
  /\ records = <<>>
  /\ envSteps = 0
  /\ pc = "idle"
  /\ kind \in {"chat", "image"}
  /\ prefer_shared \in {0, 1}
  /\ account = NoAccount
  /\ quotaBefore = 0
  /\ excludeCookieIds = {}
  /\ retryCount = 0
  /\ endpointIndex = 0
  /\ firstError403Type = "null"
  /\ catchStack = <<>>
  /\ events = <<>>
  /\ outcome = [how |-> "pending", error |-> "", body |-> {}]
  /\ tried = {}
  /\ selectCall = NoRefresh
  /\ LedgerAtRest
  /\ ParserAtRest
  /\ BenchAtRest
  /\ project = GeneratedProject

\* ------------------------------------------------- error classification
\* the chain of tests generateResponse and generateImage run on a non-2xx response
classify(r) ==
  IF r.status = 403 THEN "403"
  ELSE IF r.status = 400 THEN
         (IF "QUOTA" \in r.body THEN "quota400"
          ELSE IF "IMAGE_5MB" \in r.body THEN "image5mb"
          ELSE IF "PROJECT_INVALID" \in r.body THEN "project_invalid"
          ELSE IF "INVALID_ARGUMENT" \in r.body THEN "invalid_argument"
          ELSE "other400")
  ELSE IF r.status = 429 \/ "QUOTA" \in r.body THEN "quota429"
  ELSE IF r.status = 500 /\ "INTERNAL" \in r.body THEN "internal500"
  ELSE "other"

\* currentFirstError403Type
currentFirstError403Type(first, r) ==
  IF first = "null"
    THEN (IF "PERMISSION" \in r.body THEN "PERMISSION_DENIED" ELSE "403")
    ELSE first

\* the retry ceiling of the 429 branch
MaxRetryCount(k) == IF k = "chat" THEN MAX_RETRY_COUNT ELSE MAX_RETRY_COUNT_IMAGE

\* an event handed to callback; generateImage has no callback
Event(type, content, body) == [type |-> type, content |-> content, body |-> body]
callback(k, ev, content, body) ==
  IF k = "chat" THEN Append(ev, Event("error", content, body)) ELSE ev

Thrown(error, body) == [how |-> "throw", error |-> error, body |-> body]
Returned == [how |-> "return", error |-> "", body |-> {}]

\* what the catch blocks of the outer calls make of the way the innermost call ended:
\* stack holds, outermost first, the catch block of each outer call that awaits the
\* recursive call inside its try block: "resource_exhausted" for the catch block of
\* the 400 quota branch and of the 429 branch (the two are the same code),
\* "project_invalid" for the one of the RESOURCE_PROJECT_INVALID branch
RECURSIVE unwind(_, _, _, _)
unwind(k, stack, ev, out) ==
  IF stack = <<>> \/ out.how = "return"
    THEN [events |-> ev, outcome |-> out]
    ELSE LET frame == stack[Len(stack)]
             rest == SubSeq(stack, 1, Len(stack) - 1)
         IN IF frame = "project_invalid"
              THEN unwind(k, rest, callback(k, ev, "RESOURCE_PROJECT_INVALID", {}),
                          Thrown("RESOURCE_PROJECT_INVALID", {}))
              ELSE IF k = "chat"
                     THEN [events |-> callback(k, ev, "RESOURCE_EXHAUSTED", {}),
                           outcome |-> Returned]
                     ELSE unwind(k, rest, ev, Thrown("RESOURCE_EXHAUSTED", {}))

\* ------------------------------------------------------ steps of a request
\* the outermost call ends: every call has returned or thrown and its parameters
\* and locals are gone, the request is over
Terminate(stack, ev, out) ==
  LET u == unwind(kind, stack, ev, out)
  IN /\ pc' = "done"
     /\ account' = NoAccount
     /\ quotaBefore' = 0
     /\ excludeCookieIds' = {}
     /\ retryCount' = 0
     /\ endpointIndex' = 0
     /\ firstError403Type' = "null"
     /\ catchStack' = <<>>
     /\ project' = GeneratedProject
     /\ events' = u.events
     /\ outcome' = u.outcome

\* accounts.project_id_0 ('' when the account has none): the accounts whose number
\* is a multiple of 3 have none
project_id_0(c) == IF c % 3 = 0 THEN 0 ELSE c

\* requestBody.project set whatever the account has
setProjectAlways(body, c) == project_id_0(c)

\* if (account.project_id_0) requestBody.project = account.project_id_0
setProject(body, c) == IF project_id_0(c) # 0 THEN project_id_0(c) ELSE body

\* a call of generateResponse / generateImage with an account reads the cached
\* quota and sends the attempt
Attempt(c, excl, rc, ei, first, stack) ==
  /\ pc' = "sending"
  /\ account' = c
  /\ quotaBefore' = quota[c]
  /\ excludeCookieIds' = excl
  /\ retryCount' = rc
  /\ endpointIndex' = ei
  /\ firstError403Type' = first
  /\ catchStack' = stack
  /\ project' = setProject(project, c)
  /\ tried' = tried \cup {c}

\* the outermost call: no account given, getAvailableAccount is called first
Start ==
  /\ pc = "idle"
  /\ \E o \in getAvailableAccount(status, need_refresh, expired, prefer_shared, {}) :
       /\ status' = o.status
       /\ need_refresh' = o.need_refresh
       /\ expired' = o.expired
       /\ IF o.account = NoAccount
            THEN /\ pc' = "done"
                 /\ outcome' = Thrown("NO_ACCOUNT", {})
                 /\ UNCHANGED <<account, quotaBefore, excludeCookieIds, retryCount,
                                endpointIndex, firstError403Type, catchStack, tried,
                                project>>
            ELSE /\ Attempt(o.account, {}, 0, 0, "null", <<>>)
                 /\ UNCHANGED outcome
  /\ UNCHANGED <<quota, pool, records, envSteps, kind, prefer_shared, events, selectCall, aside>>

\* the retry branch reporting the error to callback before it tries another account
ReselectAfterCallback(frame, st, rc) ==
  \E o \in getAvailableAccount(st, need_refresh, expired, prefer_shared,
                               excludeCookieIds \cup {account}) :
    /\ status' = o.status
    /\ need_refresh' = o.need_refresh
    /\ expired' = o.expired
    /\ IF o.account = NoAccount
         THEN /\ Terminate(Append(catchStack, frame), events, Thrown("NO_ACCOUNT", {}))
              /\ UNCHANGED tried
         ELSE /\ Attempt(o.account, excludeCookieIds \cup {account}, rc, 0, "null",
                         Append(catchStack, frame))
              /\ events' = callback(kind, events, "RESOURCE_EXHAUSTED", {})
              /\ UNCHANGED outcome

\* the try block of a retry branch: select another account with the current one
\* excluded and call again with it; frame is the branch whose catch block awaits
Reselect(frame, st, rc) ==
  \E o \in getAvailableAccount(st, need_refresh, expired, prefer_shared,
                               excludeCookieIds \cup {account}) :
    /\ status' = o.status
    /\ need_refresh' = o.need_refresh
    /\ expired' = o.expired
    /\ IF o.account = NoAccount
         THEN /\ Terminate(Append(catchStack, frame), events, Thrown("NO_ACCOUNT", {}))
              /\ UNCHANGED tried
         ELSE /\ Attempt(o.account, excludeCookieIds \cup {account}, rc, 0, "null",
                         Append(catchStack, frame))
              /\ UNCHANGED <<events, outcome>>

\* a terminal branch: callback gets an error event, an ApiError is thrown
Fail(st, content, body) ==
  /\ status' = st
  /\ Terminate(catchStack, callback(kind, events, content, body), Thrown(content, body))
  /\ UNCHANGED <<need_refresh, expired, tried>>

Classified(r, branch) ==
  /\ pc = "sending"
  /\ classify(r) = branch
  /\ UNCHANGED <<quota, pool, records, envSteps, kind, prefer_shared, selectCall, aside>>

\* the 403 branch calling again without passing excludeCookieIds and retryCount on
Http403DropsRetryState(r) ==
  /\ Classified(r, "403")
  /\ LET first == currentFirstError403Type(firstError403Type, r)
     IN IF endpointIndex + 1 < EndpointCount
          THEN /\ Attempt(account, {}, 0, endpointIndex + 1, first, catchStack)
               /\ UNCHANGED <<status, need_refresh, expired, events, outcome>>
          ELSE /\ status' = (IF first # "PERMISSION_DENIED"
                               THEN updateAccountStatus(status, account, 0)
                               ELSE status)
               /\ Terminate(catchStack, callback(kind, events, "ALL_ENDPOINTS_403", r.body),
                            Thrown("ALL_ENDPOINTS_403", r.body))
               /\ UNCHANGED <<need_refresh, expired, tried>>

\* the 403 branch starting over at endpoint 0 after the last endpoint
Http403Wraps(r) ==
  /\ Classified(r, "403")
  /\ Attempt(account, excludeCookieIds, retryCount, (endpointIndex + 1) % EndpointCount,
             currentFirstError403Type(firstError403Type, r), catchStack)
  /\ UNCHANGED <<status, need_refresh, expired, events, outcome>>

\* response.status === 403
Http403(r) ==
  /\ Classified(r, "403")
  /\ LET first == currentFirstError403Type(firstError403Type, r)
     IN IF endpointIndex + 1 < EndpointCount
          THEN /\ Attempt(account, excludeCookieIds, retryCount, endpointIndex + 1, first,
                          catchStack)
               /\ UNCHANGED <<status, need_refresh, expired, events, outcome>>
          ELSE /\ status' = (IF first # "PERMISSION_DENIED"
                               THEN updateAccountStatus(status, account, 0)
                               ELSE status)
               \* generateResponse hands the event to callback, generateImage only throws
               /\ Terminate(catchStack, callback(kind, events, "ALL_ENDPOINTS_403", r.body),
                            Thrown("ALL_ENDPOINTS_403", r.body))
               /\ UNCHANGED <<need_refresh, expired, tried>>

\* 400 with 'quota' or 'RESOURCE_EXHAUSTED': another account, retryCount defaulted to 0
Http400Quota(r) ==
  /\ Classified(r, "quota400")
  /\ Reselect("resource_exhausted", status, 0)

\* 400 with 'image exceeds 5 MB maximum'
Http400ImageSize(r) ==
  /\ Classified(r, "image5mb")
  /\ Fail(status, "IMAGE_INPUT_EXCEEDED_MAXIMUM_5_MB", {})

\* the RESOURCE_PROJECT_INVALID branch without its updateAccountStatus call
Http400ProjectInvalidKeepsEnabled(r) ==
  /\ Classified(r, "project_invalid")
  /\ Reselect("project_invalid", status, 0)

\* 400 with 'RESOURCE_PROJECT_INVALID': disable, then another account
Http400ProjectInvalid(r) ==
  /\ Classified(r, "project_invalid")
  /\ Reselect("project_invalid", updateAccountStatus(status, account, 0), 0)

\* 400 with 'INVALID_ARGUMENT' or 'invalid_request_error'
Http400InvalidArgument(r) ==
  /\ Classified(r, "invalid_argument")
  /\ Fail(status, "UPSTREAM_BODY", r.body)

\* any other 400: disable the account
Http400Other(r) ==
  /\ Classified(r, "other400")
  /\ Fail(updateAccountStatus(status, account, 0), "UPSTREAM_BODY", r.body)

\* 429, or a body with 'quota' or 'RESOURCE_EXHAUSTED'
Http429(r) ==
  /\ Classified(r, "quota429")
  /\ IF retryCount >= MaxRetryCount(kind)
       THEN /\ Terminate(catchStack, callback(kind, events, "RESOURCE_EXHAUSTED", {}),
                         IF kind = "chat" THEN Returned ELSE Thrown("RESOURCE_EXHAUSTED", {}))
            /\ UNCHANGED <<status, need_refresh, expired, tried>>
       ELSE Reselect("resource_exhausted", status, retryCount + 1)

\* the 500 branch disabling the account before it fails
Http500InternalDisables(r) ==
  /\ Classified(r, "internal500")
  /\ Fail(updateAccountStatus(status, account, 0), "ILLEGAL_PROMPT", {})

\* 500 with 'Internal error encountered'
Http500Internal(r) ==
  /\ Classified(r, "internal500")
  /\ Fail(status, "ILLEGAL_PROMPT", {})

\* every other non-2xx response
HttpOther(r) ==
  /\ Classified(r, "other")
  /\ Fail(status, "UPSTREAM_BODY", r.body)

\* fetch rejects: a network error, or the abort of the 10-minute timer
FetchFailed ==
  /\ pc = "sending"
  /\ Terminate(catchStack, events, Thrown("FETCH_ERROR", {}))
  /\ UNCHANGED <<status, need_refresh, expired, quota, pool, records, envSteps, kind,
                 prefer_shared, tried, selectCall, aside>>

\* what the parsing loop hands to callback for a response stream
StreamEvents == {<<>>, <<Event("text", "", {})>>}
Delivered(k, ev, s) == IF k = "chat" THEN ev \o s ELSE ev

\* the accounting done although reading the response rejected
StreamFailedAccounted(s) ==
  /\ pc = "sending"
  /\ records' = Append(records, [cookie_id |-> account, quota_before |-> quotaBefore,
                                 quota_after |-> quota[account], quota_consumed |-> 0,
                                 is_shared |-> is_shared(account)])
  /\ Terminate(catchStack, Delivered(kind, events, s), Thrown("FETCH_ERROR", {}))
  /\ UNCHANGED <<status, need_refresh, expired, quota, pool, envSteps, kind,
                 prefer_shared, tried, selectCall, aside>>

\* reading the 2xx response rejects (reader.read, response.json): the calls unwind
\* without accounting
StreamFailed(s) ==
  /\ pc = "sending"
  /\ Terminate(catchStack, Delivered(kind, events, s), Thrown("FETCH_ERROR", {}))
  /\ UNCHANGED <<status, need_refresh, expired, quota, pool, records, envSteps, kind,
                 prefer_shared, tried, selectCall, aside>>

\* no clamp: the first argument as it is
MaxUnclamped(a, b) == a

Max(a, b) == IF a >= b THEN a ELSE b

\* quotaService.recordQuotaConsumption: the log entry, and the debit of the pool
\* for a shared account
ConsumptionRecord(c, before, after) ==
  [cookie_id |-> c, quota_before |-> before, quota_after |-> after,
   quota_consumed |-> Max(before - after, 0), is_shared |-> is_shared(c)]

\* the debit applied whatever the kind of the account
recordQuotaConsumptionAnyTier(p, c, before, after) == Max(p - Max(before - after, 0), 0)

recordQuotaConsumption(p, c, before, after) ==
  IF is_shared(c) = 1 THEN Max(p - Max(before - after, 0), 0) ELSE p

\* a 2xx response: the stream is parsed and delivered, then
\* updateQuotaAfterCompletion polls the usage endpoint (q: the fraction read back
\* from the cache afterwards, the old one when the poll failed) and the
\* consumption is recorded
StreamCompleted(s, q) ==
  /\ pc = "sending"
  /\ LET quotaAfter == q
     IN /\ quota' = [quota EXCEPT ![account] = quotaAfter]
        /\ records' = Append(records, ConsumptionRecord(account, quotaBefore, quotaAfter))
        /\ pool' = recordQuotaConsumption(pool, account, quotaBefore, quotaAfter)
  /\ Terminate(catchStack, Delivered(kind, events, s), Returned)
  /\ UNCHANGED <<status, need_refresh, expired, envSteps, kind, prefer_shared, tried,
                 selectCall, aside>>

\* ---------------------------------------------------------- environment
\* (followed while the request is under way)
\* time passes: the access token of an account comes within the 5-minute margin
TokenExpires(c) ==
  /\ pc # "done"
  /\ envSteps < MaxEnv
  /\ ~expired[c]
  /\ expired' = [expired EXCEPT ![c] = TRUE]
  /\ envSteps' = envSteps + 1
  /\ UNCHANGED <<status, need_refresh, quota, pool, records>>
  /\ UNCHANGED <<request, aside>>

\* MultiAccountClient.refreshCookieQuota running detached (stale cache, or the
\* accounting of another request): the cached fraction is overwritten
refreshCookieQuota(c, q) ==
  /\ pc # "done"
  /\ envSteps < MaxEnv
  /\ q # quota[c]
  /\ quota' = [quota EXCEPT ![c] = q]
  /\ envSteps' = envSteps + 1
  /\ UNCHANGED <<status, need_refresh, expired, pool, records>>
  /\ UNCHANGED <<request, aside>>

\* an administrator, or another request, flips accounts.status
SetAccountStatus(c) ==
  /\ pc # "done"
  /\ envSteps < MaxEnv
  /\ status' = updateAccountStatus(status, c, 1 - status[c])
  /\ envSteps' = envSteps + 1
  /\ UNCHANGED <<need_refresh, expired, quota, pool, records>>
  /\ UNCHANGED <<request, aside>>

Next ==
  \/ Start
  \/ \E r \in Responses : Http403(r)
  \/ \E r \in Responses : Http400Quota(r)
  \/ \E r \in Responses : Http400ImageSize(r)
  \/ \E r \in Responses : Http400ProjectInvalid(r)
  \/ \E r \in Responses : Http400InvalidArgument(r)
  \/ \E r \in Responses : Http400Other(r)
  \/ \E r \in Responses : Http429(r)
  \/ \E r \in Responses : Http500Internal(r)
  \/ \E r \in Responses : HttpOther(r)
  \/ FetchFailed
  \/ \E s \in StreamEvents : StreamFailed(s)
  \/ \E s \in StreamEvents, q \in 0..MaxQuota : StreamCompleted(s, q)
  \/ \E c \in Creds : TokenExpires(c)
  \/ \E c \in Creds, q \in 0..MaxQuota : refreshCookieQuota(c, q)
  \/ \E c \in Creds : SetAccountStatus(c)

Spec == Init /\ [][Next]_vars

\* the response r is classified and handled by the call in flight
Handle(r) ==
  \/ Http403(r)
  \/ Http400Quota(r)
  \/ Http400ImageSize(r)
  \/ Http400ProjectInvalid(r)
  \/ Http400InvalidArgument(r)
  \/ Http400Other(r)
  \/ Http429(r)
  \/ Http500Internal(r)
  \/ HttpOther(r)

\* a step of the request: the upstream call, the stream read and the token refresh return
Progress ==
  \/ Start
  \/ \E r \in Responses : Handle(r)
  \/ FetchFailed
  \/ \E s \in StreamEvents : StreamFailed(s)
  \/ \E s \in StreamEvents, q \in 0..MaxQuota : StreamCompleted(s, q)

\* every pending upstream call eventually returns
LiveSpec == Init /\ [][Next]_vars /\ WF_vars(Progress)

\* C2: a 403 on an endpoint that is not the last one sends the next attempt to
\* endpoint index+1 with the same account; the account's status, retryCount and the
\* exclusion list are unchanged and callback receives nothing
C2_EndpointAdvance ==
  [][\A r \in Responses :
       (pc = "sending" /\ r.status = 403 /\ endpointIndex + 1 < EndpointCount /\ Handle(r))
       => /\ pc' = "sending"
          /\ endpointIndex' = endpointIndex + 1
          /\ account' = account
          /\ status'[account] = status[account]
          /\ retryCount' = retryCount
          /\ excludeCookieIds' = excludeCookieIds
          /\ events' = events]_vars

C2_Witness ==
  /\ pc = "sending"
  /\ endpointIndex = EndpointCount - 1
  /\ firstError403Type = "PERMISSION_DENIED"
  /\ excludeCookieIds # {}
  /\ retryCount > 0

\* C4: every account an attempt of this request was sent with, except the one in
\* flight, is in the exclusion list, and the account in flight is not: no account is
\* selected in two selection rounds of one request
C4_NoAccountTwice ==
  pc = "sending" =>
    /\ tried \ {account} \subseteq excludeCookieIds
    /\ account \notin excludeCookieIds

C4_Witness ==
  /\ pc = "sending"
  /\ Cardinality(tried) >= 3
  /\ \E c \in tried \ {account} : status[c] = 1

\* the request is over with the fixed error content: generateResponse hands the
\* error event to callback, and the outermost call throws the ApiError
EndsWith(content, body) ==
  /\ pc' = "done"
  /\ outcome' = Thrown(content, body)
  /\ events' = callback(kind, events, content, body)

\* C1: a 403 on the last endpoint leaves the account enabled when the first 403 was a
\* permission-denied one and disables it otherwise; either way the request ends with
\* the ALL_ENDPOINTS_403 error and nothing more is attempted
C1_LastEndpoint403 ==
  [][\A r \in Responses :
       (pc = "sending" /\ r.status = 403 /\ endpointIndex + 1 >= EndpointCount /\ Handle(r))
       => /\ status'[account] =
               (IF currentFirstError403Type(firstError403Type, r) = "PERMISSION_DENIED"
                  THEN status[account] ELSE 0)
          /\ EndsWith("ALL_ENDPOINTS_403", r.body)]_vars

\* number of re-selections the 400 quota branch and the 429 branch have made so far
QuotaReselections ==
  Cardinality({i \in DOMAIN catchStack : catchStack[i] = "resource_exhausted"})

\* C3: the re-selections triggered by 429 or quota-exhaustion responses within one
\* request never number more than the ceiling (5 for chat, 3 for image generation)
C3_RetryCeiling == QuotaReselections <= MaxRetryCount(kind)

\* the request is over with RESOURCE_EXHAUSTED: generateResponse hands the event to
\* callback and returns, generateImage throws the ApiError
EndsResourceExhausted ==
  /\ pc' = "done"
  /\ events' = callback(kind, events, "RESOURCE_EXHAUSTED", {})
  /\ outcome' = (IF kind = "chat" THEN Returned ELSE Thrown("RESOURCE_EXHAUSTED", {}))

\* C5: a 400 with a quota-exhaustion body leaves the account's status alone, and
\* either another account, not excluded before, is in flight with the old one
\* excluded, or no account was found and the request ends with RESOURCE_EXHAUSTED
C5_Quota400 ==
  [][\A r \in Responses :
       (pc = "sending" /\ r.status = 400 /\ "QUOTA" \in r.body /\ Handle(r))
       => /\ status'[account] = status[account]
          /\ \/ /\ pc' = "sending"
                /\ account' \notin excludeCookieIds \cup {account}
                /\ excludeCookieIds' = excludeCookieIds \cup {account}
             \/ EndsResourceExhausted]_vars

\* what C6 says of a 400 response r with the project-invalid marker: the account is
\* disabled; when another account is found it is a new one and the disabled one is
\* excluded; and an excluded account never is the one in flight
ProjectInvalidHandled(r) ==
  /\ (r.status = 400 /\ "PROJECT_INVALID" \in r.body /\ Handle(r))
       => /\ status'[account] = 0
          /\ pc' = "sending" => /\ account' # account
                                /\ account \in excludeCookieIds'
  /\ pc' = "sending" => /\ excludeCookieIds \subseteq excludeCookieIds'
                        /\ account' \notin excludeCookieIds'

\* C6 as written: every 400 response with the project-invalid marker
C6_ProjectInvalid_Original ==
  [][pc = "sending" => \A r \in Responses : ProjectInvalidHandled(r)]_vars

\* C6: a 400 response with the project-invalid marker and neither the quota nor the
\* image-size marker (both are tested before it) disables the account, then another
\* account is selected with the disabled one excluded; the disabled account is not
\* in flight again in this request
C6_ProjectInvalid ==
  [][pc = "sending" =>
       \A r \in Responses :
         ("QUOTA" \notin r.body /\ "IMAGE_5MB" \notin r.body) => ProjectInvalidHandled(r)]_vars

C6_Witness ==
  /\ pc = "sending"
  /\ catchStack # <<>>
  /\ catchStack[Len(catchStack)] = "project_invalid"
  /\ \E c \in excludeCookieIds : status[c] = 0

\* C7: a 400 whose body has the invalid-argument marker (and none of the markers
\* tested before it) changes no account and ends the request with the raw body as
\* the error
C7_InvalidArgument ==
  [][\A r \in Responses :
       (pc = "sending" /\ r.status = 400 /\ r.body = {"INVALID_ARGUMENT"} /\ Handle(r))
       => /\ status' = status
          /\ EndsWith("UPSTREAM_BODY", r.body)]_vars

\* C8: a 400 with none of the quota, image-size, project-invalid or invalid-argument
\* markers disables the account and ends the request with the raw body as the error
C8_Other400 ==
  [][\A r \in Responses :
       (pc = "sending" /\ r.status = 400 /\ r.body = {} /\ Handle(r))
       => /\ status' = updateAccountStatus(status, account, 0)
          /\ EndsWith("UPSTREAM_BODY", r.body)]_vars

\* C9: a failed fetch (network error, timeout) ends the request with that error
\* thrown to the caller; no account changes, nothing is delivered or recorded
C9_FetchFailed ==
  [][FetchFailed
       => /\ pc' = "done"
          /\ outcome' = Thrown("FETCH_ERROR", {})
          /\ events' = events
          /\ status' = status
          /\ records' = records]_vars

\* C10: every request reaches an outcome
C10_Terminates == <>(pc = "done")

C10_Witness ==
  /\ pc = "done"
  /\ Cardinality(tried) = NumCreds
  /\ \E c \in Creds : status[c] = 0

\* ------------------------------------ getAvailableAccount followed on its own
\* a row of the accounts table with the cached quota of the requested model, as a
\* call may find it: enabled; enabled with a token inside the margin; disabled;
\* flagged need_refresh and enabled again; enabled without quota for the model
AccountRows ==
  { [status |-> 1, need_refresh |-> 0, expired |-> FALSE, quota |-> MaxQuota],
    [status |-> 1, need_refresh |-> 0, expired |-> TRUE,  quota |-> MaxQuota],
    [status |-> 0, need_refresh |-> 0, expired |-> FALSE, quota |-> MaxQuota],
    [status |-> 1, need_refresh |-> 1, expired |-> TRUE,  quota |-> MaxQuota],
    [status |-> 1, need_refresh |-> 0, expired |-> FALSE, quota |-> 0] }

\* any accounts table, any preference, any short exclusion list
SelectInit ==
  /\ \E rows \in [Creds -> AccountRows] :
       /\ status = [c \in Creds |-> rows[c].status]
       /\ need_refresh = [c \in Creds |-> rows[c].need_refresh]
       /\ expired = [c \in Creds |-> rows[c].expired]
       /\ quota = [c \in Creds |-> rows[c].quota]
  /\ pool \in {0, MaxQuota}
  /\ prefer_shared \in {0, 1}
  /\ excludeCookieIds \in {x \in SUBSET Creds : Cardinality(x) <= MaxExcluded}
  /\ pc = "idle"
  /\ account = NoAccount
  /\ selectCall = NoRefresh
  /\ LedgerAtRest
  /\ ParserAtRest
  /\ BenchAtRest
  /\ project = GeneratedProject
  /\ records = <<>>
  /\ envSteps = 0
  /\ kind = "chat"
  /\ quotaBefore = 0
  /\ retryCount = 0
  /\ endpointIndex = 0
  /\ firstError403Type = "null"
  /\ catchStack = <<>>
  /\ events = <<>>
  /\ outcome = [how |-> "pending", error |-> "", body |-> {}]
  /\ tried = {}

\* one call getAvailableAccount(user_id, model_name, user, excludeCookieIds): it
\* returns an account or throws (NoAccount), and leaves the accounts table changed
\* by the refreshes it tried
SelectAccount ==
  /\ pc = "idle"
  /\ \E o \in getAvailableAccount(status, need_refresh, expired, prefer_shared,
                                  excludeCookieIds) :
       /\ status' = o.status
       /\ need_refresh' = o.need_refresh
       /\ expired' = o.expired
       /\ account' = o.account
       /\ selectCall' = o.refresh
  /\ pc' = "selected"
  /\ UNCHANGED <<quota, pool, records, envSteps, kind, prefer_shared, quotaBefore,
                 excludeCookieIds, retryCount, endpointIndex, firstError403Type,
                 catchStack, events, outcome, tried, project>>
  /\ UNCHANGED aside

\* the next call, made for a new request: nothing is excluded yet
NextSelect ==
  /\ pc = "selected"
  /\ pc' = "idle"
  /\ account' = NoAccount
  /\ excludeCookieIds' = {}
  /\ selectCall' = NoRefresh
  /\ UNCHANGED store
  /\ UNCHANGED <<envSteps, kind, prefer_shared, quotaBefore, retryCount, endpointIndex,
                 firstError403Type, catchStack, events, outcome, tried, project>>
  /\ UNCHANGED aside

SelectNext == SelectAccount \/ NextSelect

SelectSpec == SelectInit /\ [][SelectNext]_vars

\* the call has returned an account
Selected == pc = "selected" /\ account # NoAccount

\* account c can be selected by the requesting user: enabled, not flagged, the
\* model available on it and, for a shared account, quota in the user's pool
Eligible(c) ==
  /\ status[c] = 1
  /\ need_refresh[c] = 0
  /\ quota[c] > 0
  /\ is_shared(c) = 1 => pool > 0

\* C11: an account of the kind the user does not prefer is returned only when no
\* eligible account of the preferred kind is left outside the exclusion list, also
\* when a failed refresh made the call start over
C11_PreferredTier ==
  (Selected /\ is_shared(account) # prefer_shared)
    => \A c \in Creds \ excludeCookieIds : is_shared(c) = prefer_shared => ~Eligible(c)

C11_Witness ==
  /\ Selected
  /\ prefer_shared = 0
  /\ is_shared(account) = 1
  /\ selectCall.invalid_grant \cup selectCall.refresh_error # {}
  /\ \E c \in excludeCookieIds : is_shared(c) = 0 /\ Eligible(c)

\* C12: a shared account is returned only while the user's shared pool holds quota
\* for the requested model's sharing group, whatever the account's own quota
C12_SharedNeedsPool == (Selected /\ is_shared(account) = 1) => pool > 0

C12_Witness ==
  /\ Selected
  /\ is_shared(account) = 1
  /\ prefer_shared = 0
  /\ selectCall.refreshed

\* C13: the account returned is neither in the exclusion list the caller passed nor
\* one whose token refresh failed earlier in the same call
C13_NeverExcluded ==
  Selected =>
    account \notin excludeCookieIds \cup selectCall.invalid_grant \cup selectCall.refresh_error

C13_Witness ==
  /\ Selected
  /\ selectCall.refresh_error # {}
  /\ \E c \in excludeCookieIds : Eligible(c) /\ is_shared(c) = prefer_shared

\* the account returned is enabled, not flagged and has the model available
ReturnsUsable ==
  Selected => status[account] = 1 /\ need_refresh[account] = 0 /\ quota[account] > 0

\* C14 as written: the call fails exactly when no enabled, unflagged, non-excluded
\* account with the model available is left
C14_FailsExactly_Original ==
  /\ ReturnsUsable
  /\ pc = "selected" =>
       (account = NoAccount <=>
          ~ \E c \in Creds \ excludeCookieIds :
              status[c] = 1 /\ need_refresh[c] = 0 /\ quota[c] > 0)

\* C14: the account returned is enabled, not flagged and has the model available;
\* the call fails exactly when no non-excluded account is left that is enabled,
\* unflagged, has the model available and, if shared, is covered by the user's pool
C14_FailsExactly ==
  /\ ReturnsUsable
  /\ pc = "selected" =>
       (account = NoAccount <=> ~ \E c \in Creds \ excludeCookieIds : Eligible(c))

C14_Witness ==
  /\ pc = "selected"
  /\ account = NoAccount
  /\ selectCall.invalid_grant # {}
  /\ \E c \in excludeCookieIds : Eligible(c)

\* C15: the token of the account returned is outside the 5-minute margin: it was so
\* before, or the call refreshed it and stored the new token and expiry
C15_TokenFresh == Selected => ~isTokenExpired(expired, account)

C15_Witness == Selected /\ selectCall.refreshed /\ selectCall.invalid_grant # {}

\* C16: an account whose refresh failed with invalid_grant is disabled and is not
\* the account this call returns
C16_InvalidGrant ==
  pc = "selected" => \A c \in selectCall.invalid_grant : status[c] = 0 /\ account # c

C16_Witness == Selected /\ Cardinality(selectCall.invalid_grant) >= 2

\* C17: an account whose refresh failed otherwise is flagged need_refresh and is not
\* the account this call returns; and no call returns an account that is flagged
C17_NeedRefresh ==
  /\ pc = "selected" =>
       \A c \in selectCall.refresh_error : need_refresh[c] = 1 /\ account # c
  /\ Selected => need_refresh[account] = 0

C17_Witness ==
  /\ Selected
  /\ selectCall.refresh_error # {}
  /\ \E c \in Creds \ (excludeCookieIds \cup selectCall.refresh_error) :
       need_refresh[c] = 1 /\ status[c] = 1 /\ quota[c] > 0 /\ is_shared(c) = prefer_shared

\* ------------------------------------------------ the consumption ledger
\* before - after when the quota went down, 0 when it went up (reset during the call)
Consumed(before, after) == IF before >= after THEN before - after ELSE 0

\* the entry the completed call has appended to quota_consumption_log
LastRecord == records'[Len(records')]

C20_OnlySharedDebits ==
  [][\A s \in StreamEvents, q \in 0..MaxQuota :
       (pc = "sending" /\ StreamCompleted(s, q))
       => /\ Len(records') = Len(records) + 1
          /\ LastRecord.cookie_id = account
          /\ LastRecord.is_shared = is_shared(account)
          /\ pool' = (IF is_shared(account) = 0 THEN pool
                      ELSE IF pool >= Consumed(quotaBefore, q)
                             THEN pool - Consumed(quotaBefore, q)
                             ELSE 0)]_vars

C20_Witness ==
  /\ pc = "done"
  /\ pool > 0
  /\ \E i \in DOMAIN records :
       records[i].is_shared = 0 /\ records[i].quota_consumed > pool

\* a call completed with a shared account that consumed more than the pool held
C20_WitnessFloor ==
  /\ pc = "done"
  /\ pool = 0
  /\ \E i \in DOMAIN records :
       records[i].is_shared = 1 /\ records[i].quota_consumed = MaxQuota

\* ------------------------------------------- accounting and delivery of a request
\* C24: only the step that completes the stream of an attempt appends to the
\* consumption log or changes the pool: it appends one entry, the first of the
\* request, for the account of that attempt, and the request returns without an
\* error event; a request that has thrown or reported an error has appended nothing
C24_AccountingAfterSuccess ==
  [][/\ (pc' = "done" /\ (outcome'.how = "throw" \/ \E i \in DOMAIN events' :
                                                      events'[i].type = "error"))
        => records' = <<>>
     /\ (records' # records \/ pool' # pool)
        => /\ pc = "sending"
           /\ pc' = "done"
           /\ outcome' = Returned
           /\ records = <<>>
           /\ Len(records') = 1
           /\ LastRecord.cookie_id = account]_vars

\* a request that failed over to a second account and was accounted on it
C24_Witness ==
  /\ pc = "done"
  /\ Len(records) = 1
  /\ Cardinality(tried) >= 2
  /\ catchStack = <<>>
  /\ outcome = Returned
  /\ \E c \in tried : c # records[1].cookie_id

C35_TerminalUntouched ==
  [][(\E r \in Responses : Http400ImageSize(r) \/ Http500Internal(r))
       => /\ pc' = "done"
          /\ status' = status
          /\ need_refresh' = need_refresh
          /\ expired' = expired
          /\ tried' = tried
          /\ IF kind = "chat"
               THEN /\ Len(events') > Len(events)
                    /\ events'[Len(events) + 1].type = "error"
                    /\ events'[Len(events) + 1].content
                         \in {"IMAGE_INPUT_EXCEEDED_MAXIMUM_5_MB", "ILLEGAL_PROMPT"}
               ELSE outcome'.how = "throw"]_vars

\* the second account of a request answers with the internal-error marker
C35_Witness ==
  /\ pc = "done"
  /\ Cardinality(tried) = 2
  /\ \E i \in DOMAIN events : events[i].content = "ILLEGAL_PROMPT"
  /\ \A c \in tried : status[c] = 1

\* C36: callback receives at most one error event for a chat request, and nothing
\* after it.
C36_OneErrorEvent ==
  kind = "chat" => \A i \in DOMAIN events : events[i].type = "error" => i = Len(events)

\* C37: the request body of an attempt carries the project id of the account whose
\* access token the attempt is sent with, and never the one of an account tried
\* before.
C37_ProjectOfAccount ==
  pc = "sending" =>
    /\ project_id_0(account) # 0 => project = project_id_0(account)
    /\ \A c \in tried \ {account} : project_id_0(c) # 0 => project # project_id_0(c)

\* ------------------------------------------- the ledger and the parsers
\* no request is under way: the accounts table and the request variables are not
\* read by the ledger and the parsers below
GatewayAtRest ==
  /\ status = [c \in Creds |-> 1]
  /\ need_refresh = [c \in Creds |-> 0]
  /\ expired = [c \in Creds |-> FALSE]
  /\ quota = [c \in Creds |-> MaxQuota]
  /\ pool = 0
  /\ records = <<>>
  /\ envSteps = 0
  /\ pc = "idle"
  /\ kind = "chat"
  /\ prefer_shared = 0
  /\ account = NoAccount
  /\ quotaBefore = 0
  /\ excludeCookieIds = {}
  /\ retryCount = 0
  /\ endpointIndex = 0
  /\ firstError403Type = "null"
  /\ catchStack = <<>>
  /\ events = <<>>
  /\ outcome = [how |-> "pending", error |-> "", body |-> {}]
  /\ tried = {}
  /\ selectCall = NoRefresh
  /\ project = GeneratedProject

\* ------------------------------------------------- the shared quota pools
\* (quotaService, called from the OAuth callback, the maintenance scripts and the
\* recovery job; the accounts table is followed by the number of shared accounts
\* of each user only)
\* users with shared accounts
NumUsers == 2
\* largest number of shared accounts of one user
MaxShared == 2
\* quota and max_quota are REAL columns: counted in tenths
PoolScale == 10
\* max_quota grows by 2 with every shared account
CeilingPerAccount == 2
\* the hourly recovery adds 20% of max_quota
RecoveryPercent == 20

Users == 1..NumUsers
\* remainingFraction of the account added or removed, in tenths
Fractions == {(f * PoolScale) \div MaxQuota : f \in 0..MaxQuota}
\* consumption of one call on a shared account, in tenths
Debits == Fractions \ {0}
NoPoolRow == [quota |-> 0, max_quota |-> 0]
NoShared == [enabled |-> 0, disabled |-> 0]

Min(a, b) == IF a <= b THEN a ELSE b

\* the ceiling of a user with n enabled shared accounts
poolCeiling(n) == CeilingPerAccount * PoolScale * n

\* addUserSharedQuota: quota += accountQuota * 2, max_quota += 2
addUserSharedQuota(row, f) ==
  [quota |-> row.quota + CeilingPerAccount * f,
   max_quota |-> row.max_quota + CeilingPerAccount * PoolScale]

\* removeUserSharedQuota: the share of the removed account leaves the pool; the
\* ceiling follows at the next recovery pass
removeUserSharedQuota(row, f) ==
  [row EXCEPT !.quota = Max(@ - CeilingPerAccount * f, 0)]

\* updateUserSharedQuotaMax: the ceiling is computed again, the quota stays under it
updateUserSharedQuotaMax(row, n) ==
  [quota |-> Min(row.quota, poolCeiling(n)), max_quota |-> poolCeiling(n)]

\* the debit of recordQuotaConsumption for a shared account
debitUserSharedQuota(row, d) == [row EXCEPT !.quota = Max(@ - d, 0)]

\* the recovery of one pool with the cap left out
recoverUserSharedQuotaUncapped(row, n) ==
  [quota |-> row.quota + (poolCeiling(n) * RecoveryPercent) \div 100,
   max_quota |-> poolCeiling(n)]

\* the recovery of one pool: the ceiling is computed again, 20% of it is added,
\* capped at the ceiling
recoverUserSharedQuota(row, n) ==
  [quota |-> Min(row.quota + (poolCeiling(n) * RecoveryPercent) \div 100, poolCeiling(n)),
   max_quota |-> poolCeiling(n)]

\* what a step on the ledger leaves alone
LedgerFrame ==
  /\ UNCHANGED <<store, envSteps, kind, prefer_shared, account, quotaBefore,
                 excludeCookieIds, retryCount, endpointIndex, firstError403Type,
                 catchStack, events, outcome, tried, selectCall, project, txns, history,
                 parser, bench>>

\* no shared account yet, no pool row
PoolInit ==
  /\ GatewayAtRest
  /\ ParserAtRest
  /\ BenchAtRest
  /\ poolRows = <<>>
  /\ sharedAccounts = [u \in Users |-> NoShared]
  /\ recoveredCount = 0
  /\ txns = {}
  /\ history = <<>>

\* OAuthService.handleCallback for a shared account: the account is created
\* enabled and its quota is added to the pool of its owner
handleCallback(u, f) ==
  /\ sharedAccounts[u].enabled + sharedAccounts[u].disabled < MaxShared
  /\ sharedAccounts' = [sharedAccounts EXCEPT ![u].enabled = @ + 1]
  /\ LET row == IF u \in DOMAIN poolRows THEN poolRows[u] ELSE NoPoolRow
     IN /\ row.max_quota < poolCeiling(MaxShared)
        /\ poolRows' = [v \in DOMAIN poolRows \cup {u} |->
                          IF v = u THEN addUserSharedQuota(row, f) ELSE poolRows[v]]
  /\ pc' = "idle"
  /\ UNCHANGED recoveredCount
  /\ LedgerFrame

\* updateAccountStatus(cookie_id, 0) on a shared account (the failover of a
\* request, a failed token refresh, the project check): the pool is not touched
disableSharedAccount(u) ==
  /\ sharedAccounts[u].enabled > 0
  /\ sharedAccounts' = [sharedAccounts EXCEPT ![u].enabled = @ - 1, ![u].disabled = @ + 1]
  /\ pc' = "idle"
  /\ UNCHANGED <<poolRows, recoveredCount>>
  /\ LedgerFrame

\* updateAccountStatus(cookie_id, 1) by the project check: the pool is not touched
enableSharedAccount(u) ==
  /\ sharedAccounts[u].disabled > 0
  /\ sharedAccounts' = [sharedAccounts EXCEPT ![u].enabled = @ + 1, ![u].disabled = @ - 1]
  /\ pc' = "idle"
  /\ UNCHANGED <<poolRows, recoveredCount>>
  /\ LedgerFrame

\* removeDuplicateAccount for a shared account, enabled or not: its quota is taken
\* from the pool, then the account is deleted
removeDuplicateAccount(u, f, wasEnabled) ==
  /\ u \in DOMAIN poolRows
  /\ IF wasEnabled
       THEN /\ sharedAccounts[u].enabled > 0
            /\ sharedAccounts' = [sharedAccounts EXCEPT ![u].enabled = @ - 1]
       ELSE /\ sharedAccounts[u].disabled > 0
            /\ sharedAccounts' = [sharedAccounts EXCEPT ![u].disabled = @ - 1]
  /\ poolRows' = [poolRows EXCEPT ![u] = removeUserSharedQuota(@, f)]
  /\ pc' = "idle"
  /\ UNCHANGED recoveredCount
  /\ LedgerFrame

\* updateAllUserQuotas reaching a shared account of u: the ceiling of its owner
updateAllUserQuotas(u) ==
  /\ u \in DOMAIN poolRows
  /\ sharedAccounts[u].enabled + sharedAccounts[u].disabled > 0
  /\ poolRows' = [poolRows EXCEPT
                    ![u] = updateUserSharedQuotaMax(@, sharedAccounts[u].enabled)]
  /\ pc' = "idle"
  /\ UNCHANGED <<sharedAccounts, recoveredCount>>
  /\ LedgerFrame

\* a completed call of u on a shared account that consumed d
recordSharedConsumption(u, d) ==
  /\ u \in DOMAIN poolRows
  /\ poolRows[u].quota > 0
  /\ poolRows' = [poolRows EXCEPT ![u] = debitUserSharedQuota(@, d)]
  /\ pc' = "idle"
  /\ UNCHANGED <<sharedAccounts, recoveredCount>>
  /\ LedgerFrame

\* runQuotaRecovery: recoverAllUserSharedQuotas goes over every pool and returns
\* the number of rows
runQuotaRecovery ==
  /\ poolRows' = [u \in DOMAIN poolRows |->
                    recoverUserSharedQuota(poolRows[u], sharedAccounts[u].enabled)]
  /\ recoveredCount' = Cardinality(DOMAIN poolRows)
  /\ pc' = "recovered"
  /\ UNCHANGED sharedAccounts
  /\ LedgerFrame

PoolNext ==
  \/ \E u \in Users, f \in Fractions : handleCallback(u, f)
  \/ \E u \in Users : disableSharedAccount(u)
  \/ \E u \in Users : enableSharedAccount(u)
  \/ \E u \in Users, f \in Fractions, e \in BOOLEAN : removeDuplicateAccount(u, f, e)
  \/ \E u \in Users : updateAllUserQuotas(u)
  \/ \E u \in Users, d \in Debits : recordSharedConsumption(u, d)
  \/ runQuotaRecovery

PoolSpec == PoolInit /\ [][PoolNext]_vars

C22_CeilingTwiceN ==
  [][/\ \A u \in DOMAIN poolRows' :
          poolRows'[u].max_quota >= poolCeiling(sharedAccounts'[u].enabled)
     /\ runQuotaRecovery
        => \A u \in DOMAIN poolRows' :
             poolRows'[u].max_quota = poolCeiling(sharedAccounts'[u].enabled)]_vars

\* --------------------------------------- statements racing on one pool row
\* statements begun in one run
MaxStatements == 3
DebitStatement(d) == [op |-> "debit", d |-> d]
RecoverStatement == [op |-> "recover", d |-> 0]
Statements == {DebitStatement(d) : d \in Debits} \cup {RecoverStatement}

\* what a statement makes of a row with n enabled shared accounts behind it
execute(row, stmt, n) ==
  IF stmt.op = "debit" THEN debitUserSharedQuota(row, stmt.d)
  ELSE recoverUserSharedQuota(row, n)

\* the new row computed from the row as it was read, and written back
writeFromSnapshot(current, snapshot, stmt, n) == execute(snapshot, stmt, n)

\* the update applied by the storage layer to the row as it is when written
write(current, snapshot, stmt, n) == execute(current, stmt, n)

\* the owner of the row has n enabled shared accounts, the ceiling is in step
RaceInit ==
  /\ GatewayAtRest
  /\ ParserAtRest
  /\ BenchAtRest
  /\ \E n \in 1..MaxShared :
       /\ sharedAccounts = [u \in {1} |-> [enabled |-> n, disabled |-> 0]]
       /\ \E q \in {0, PoolScale \div MaxQuota, PoolScale, poolCeiling(n)} :
            poolRows = [u \in {1} |-> [quota |-> q, max_quota |-> poolCeiling(n)]]
  /\ recoveredCount = 0
  /\ txns = {}
  /\ history = [base |-> poolRows[1], written |-> <<>>]

RaceFrame ==
  /\ UNCHANGED <<store, envSteps, request, sharedAccounts, recoveredCount, parser, bench>>

\* a request accounting its consumption, or the recovery job, reads the row
beginStatement(stmt) ==
  /\ Cardinality(txns) + Len(history.written) < MaxStatements
  /\ txns' = txns \cup {[id |-> Cardinality(txns) + Len(history.written) + 1,
                         stmt |-> stmt, snapshot |-> poolRows[1]]}
  /\ UNCHANGED <<poolRows, history>>
  /\ RaceFrame

\* and writes it
writeStatement(t) ==
  /\ t \in txns
  /\ poolRows' = [poolRows EXCEPT
                    ![1] = write(@, t.snapshot, t.stmt, sharedAccounts[1].enabled)]
  /\ txns' = txns \ {t}
  /\ history' = [history EXCEPT !.written = Append(@, t)]
  /\ RaceFrame

RaceNext ==
  \/ \E stmt \in Statements : beginStatement(stmt)
  \/ \E t \in txns : writeStatement(t)

RaceSpec == RaceInit /\ [][RaceNext]_vars

\* the statements of seq executed one after the other in the order order
RECURSIVE Serial(_, _, _, _)
Serial(row, seq, order, n) ==
  IF order = <<>> THEN row
  ELSE Serial(execute(row, seq[Head(order)].stmt, n), seq, Tail(order), n)

Orders(k) == {o \in [1..k -> 1..k] : \A i, j \in 1..k : o[i] = o[j] => i = j}

MaxLines == 2
\* parts of one record
MaxParts == 2

\* a part of candidates[0].content.parts: thought text, text, blank text,
\* inlineData, functionCall (with or without thoughtSignature next to it), or none
\* of these
PartShapes ==
  [kind : {"thought", "text", "blank", "inlineData", "other"}, sig : {FALSE}]
    \cup [kind : {"functionCall"}, sig : BOOLEAN]
\* a line of the stream: one that does not start with 'data: ', one whose JSON
\* does not parse, or a record with its parts and, possibly, a finishReason
LineShapes ==
  {[data |-> FALSE, json |-> FALSE, parts |-> <<>>, finish |-> FALSE],
   [data |-> TRUE, json |-> FALSE, parts |-> <<>>, finish |-> FALSE]}
    \cup [data : {TRUE}, json : {TRUE},
          parts : UNION {[1..k -> PartShapes] : k \in 0..MaxParts}, finish : BOOLEAN]

\* the parts of a stream numbered in the order the upstream sends them
Numbered(lines) ==
  [i \in DOMAIN lines |->
     [lines[i] EXCEPT !.parts =
        [j \in DOMAIN lines[i].parts |->
           [kind |-> lines[i].parts[j].kind, sig |-> lines[i].parts[j].sig,
            n |-> (i - 1) * MaxParts + j]]]]

\* what callback receives: an event made from part n, or the batch of tool calls
PartEvent(type, n) == [type |-> type, n |-> n, tool_calls |-> <<>>]
ToolCallsEvent(calls) == [type |-> "tool_calls", n |-> 0, tool_calls |-> calls]

\* the tool call built from a functionCall part, extra_content.google.thought_signature
\* set when the part has a thoughtSignature
toolCall(part) == [n |-> part.n, thought_signature |-> part.sig]
\* the tool call built by generateAssistantResponse: id, type and function only
toolCallPlain(part) == [n |-> part.n, thought_signature |-> FALSE]

\* the chain of tests on one part; st = [events, toolCalls]
processPart(st, part, reader) ==
  IF part.kind = "thought" THEN [st EXCEPT !.events = Append(@, PartEvent("reasoning", part.n))]
  ELSE IF part.kind = "text" THEN [st EXCEPT !.events = Append(@, PartEvent("text", part.n))]
  ELSE IF part.kind = "blank" THEN st
  ELSE IF part.kind = "inlineData" /\ reader = "generateResponse"
    THEN [st EXCEPT !.events = Append(@, PartEvent("image", part.n))]
  ELSE IF part.kind = "functionCall"
    THEN [st EXCEPT !.toolCalls =
            Append(@, IF reader = "generateResponse" THEN toolCall(part)
                      ELSE toolCallPlain(part))]
  ELSE st

RECURSIVE processParts(_, _, _)
processParts(st, parts, reader) ==
  IF parts = <<>> THEN st
  ELSE processParts(processPart(st, Head(parts), reader), Tail(parts), reader)

\* the flush that leaves the delivered calls in toolCalls
flushKeepingCalls(st) == [st EXCEPT !.events = Append(@, ToolCallsEvent(st.toolCalls))]

\* a finishReason with calls pending: one tool_calls event, toolCalls = []
flush(st) ==
  [events |-> Append(st.events, ToolCallsEvent(st.toolCalls)), toolCalls |-> <<>>]

\* the body of the loop over the lines of a chunk
processLine(st, line, reader) ==
  IF ~line.data \/ ~line.json THEN st
  ELSE LET after == processParts(st, line.parts, reader)
       IN IF line.finish /\ after.toolCalls # <<>> THEN flush(after) ELSE after

RECURSIVE processLines(_, _, _)
processLines(st, lines, reader) ==
  IF lines = <<>> THEN st
  ELSE processLines(processLine(st, Head(lines), reader), Tail(lines), reader)

\* a response stream of a few lines read by one of the two functions
TextInit ==
  /\ GatewayAtRest
  /\ LedgerAtRest
  /\ BenchAtRest
  /\ client \in {"generateResponse", "generateAssistantResponse"}
  /\ \E k \in 1..MaxLines : \E lines \in [1..k -> LineShapes] :
       /\ frames = Numbered(lines)
       /\ upstream = Numbered(lines)
  /\ buffer = <<>>
  /\ toolCalls = <<>>
  /\ toolCallIndexMap = <<>>
  /\ indexCounter = 0

ParserFrame ==
  /\ UNCHANGED <<store, envSteps, kind, prefer_shared, account, quotaBefore,
                 excludeCookieIds, retryCount, endpointIndex, firstError403Type,
                 catchStack, outcome, tried, selectCall, project, ledger, bench, client,
                 frames>>

\* reader.read() of generateResponse returns a chunk: with what was kept in buffer
\* it ends k lines, and it may end inside the next one (cut), which goes to buffer
readChunk(k, cut) ==
  /\ client = "generateResponse"
  /\ pc = "idle"
  /\ k <= Len(upstream)
  /\ cut => k < Len(upstream)
  /\ k > 0 \/ (cut /\ buffer = <<>>)
  /\ LET st == processLines([events |-> events, toolCalls |-> toolCalls],
                            SubSeq(upstream, 1, k), client)
     IN /\ events' = st.events
        /\ toolCalls' = st.toolCalls
  /\ upstream' = SubSeq(upstream, k + 1, Len(upstream))
  /\ buffer' = IF cut THEN <<"cut">> ELSE <<>>
  /\ UNCHANGED <<pc, toolCallIndexMap, indexCounter>>
  /\ ParserFrame

\* reader.read() of generateAssistantResponse returns a chunk: it is split at the
\* line ends and nothing is kept, so the line the previous chunk ended in and the
\* line this chunk ends in (cut) are not records
readChunkUnbuffered(k, cut) ==
  /\ client = "generateAssistantResponse"
  /\ pc = "idle"
  /\ k <= Len(upstream)
  /\ cut => k < Len(upstream)
  /\ k > 0 \/ (cut /\ buffer = <<>>)
  /\ LET whole == SubSeq(upstream, IF buffer = <<>> THEN 1 ELSE 2, k)
         st == processLines([events |-> events, toolCalls |-> toolCalls], whole, client)
     IN /\ events' = st.events
        /\ toolCalls' = st.toolCalls
  /\ upstream' = SubSeq(upstream, k + 1, Len(upstream))
  /\ buffer' = IF cut THEN <<"cut">> ELSE <<>>
  /\ UNCHANGED <<pc, toolCallIndexMap, indexCounter>>
  /\ ParserFrame

\* reader.read() returns done
readDone ==
  /\ client \in {"generateResponse", "generateAssistantResponse"}
  /\ pc = "idle"
  /\ upstream = <<>>
  /\ pc' = "done"
  /\ UNCHANGED <<events, upstream, buffer, toolCalls, toolCallIndexMap, indexCounter>>
  /\ ParserFrame

TextNext ==
  \/ \E k \in 0..MaxLines, cut \in BOOLEAN : readChunk(k, cut)
  \/ \E k \in 0..MaxLines, cut \in BOOLEAN : readChunkUnbuffered(k, cut)
  \/ readDone

TextSpec == TextInit /\ [][TextNext]_vars

\* ------------------------------------------------ the binary frame parser
\* (KiroClient.handleStreamResponse, parseSingleMessage and processMessage)
\* frames of one response stream
MaxFrames == 3
\* toolUseIds of one response stream
NumToolIds == 3

\* a frame is at least its prelude (total length, header length, prelude CRC) and
\* its message CRC
MinTotalLength == 16
MaxTotalLength == 16 * 1024 * 1024
PreludeLength == 12
CrcLength == 4

\* the JSON payloads the upstream sends, by the byte that stands for them: an object
\* with or without content, name, input and toolUseId (0: without)
Message(code) ==
  [content |-> (code - 1) % 2 = 1,
   name |-> ((code - 1) \div 2) % 2 = 1,
   input |-> ((code - 1) \div 4) % 2 = 1,
   toolUseId |-> (code - 1) \div 8]
Codes ==
  {c \in 1..(8 * (NumToolIds + 1)) :
     \/ Message(c).toolUseId = 0 /\ c <= 5
     \/ Message(c).toolUseId # 0 /\ ~Message(c).content /\ (Message(c).name \/ Message(c).input)
     \/ Message(c).toolUseId # 0 /\ Message(c).content /\ Message(c).name /\ Message(c).input}
\* a payload that is not JSON
NotJson == 0

\* what the upstream puts on the wire: a message in a frame without headers or with
\* two header bytes, a frame whose header length is larger than its total length,
\* a frame without payload, a frame whose payload is not JSON, four zero bytes
FrameShapes ==
  [type : {"message"}, code : Codes, headers : {0}]
    \cup [type : {"message"}, code : {2}, headers : {2}]
    \cup [type : {"bad_header"}, code : {2, 11}, headers : {0}]
    \cup [type : {"empty", "not_json", "zeros"}, code : {NotJson}, headers : {0}]

uint32(n) == <<(n \div 16777216) % 256, (n \div 65536) % 256, (n \div 256) % 256, n % 256>>
zeros(k) == [i \in 1..k |-> 0]
totalLength(fr) ==
  MinTotalLength + fr.headers + (IF fr.type = "empty" THEN 0 ELSE 1)
encode(fr) ==
  IF fr.type = "zeros" THEN zeros(4)
  ELSE uint32(totalLength(fr))
         \o uint32(IF fr.type = "bad_header" THEN totalLength(fr) + 1 ELSE fr.headers)
         \o zeros(4) \o zeros(fr.headers)
         \o (IF fr.type = "empty" THEN <<>> ELSE <<fr.code>>)
         \o zeros(CrcLength)
RECURSIVE encodeAll(_)
encodeAll(frs) == IF frs = <<>> THEN <<>> ELSE encode(Head(frs)) \o encodeAll(Tail(frs))

\* Buffer.readUInt32BE
readUInt32BE(data, offset) ==
  ((data[offset + 1] * 256 + data[offset + 2]) * 256 + data[offset + 3]) * 256
    + data[offset + 4]

\* JSON.parse of the payload bytes: the message, or NotJson when it throws
JSONparse(payload) ==
  IF Len(payload) = 1 /\ payload[1] \in 1..(8 * (NumToolIds + 1)) THEN payload[1] ELSE NotJson

\* parseSingleMessage without the test of the payload bounds
parseSingleMessageUnchecked(data) ==
  [threw |-> FALSE, message |-> JSONparse(<<data[Len(data) - CrcLength]>>)]

\* parseSingleMessage: it throws, or returns the payload (NotJson: null)
parseSingleMessage(data) ==
  IF Len(data) < MinTotalLength THEN [threw |-> FALSE, message |-> NotJson]
  ELSE LET total == readUInt32BE(data, 0)
           headerLength == readUInt32BE(data, 4)
           payloadStart == PreludeLength + headerLength
           payloadEnd == total - CrcLength
       IN IF total # Len(data) THEN [threw |-> TRUE, message |-> NotJson]
          ELSE IF payloadStart > payloadEnd \/ payloadEnd > Len(data)
            THEN [threw |-> TRUE, message |-> NotJson]
          ELSE IF payloadStart = payloadEnd THEN [threw |-> FALSE, message |-> NotJson]
          ELSE [threw |-> FALSE,
                message |-> JSONparse(SubSeq(data, payloadStart + 1, payloadEnd))]

\* events of the binary stream: n is the place of the frame in the stream (the
\* offset of its first byte)
FrameEvent(type, n, id, index) == [type |-> type, n |-> n, id |-> id, index |-> index]
NoIndex == 0 - 1

\* every tool_call_start takes the next index
toolCallIndexAlwaysNext(map, counter, id) ==
  [index |-> counter, map |-> (id :> counter) @@ map, counter |-> counter + 1]

\* the index of a toolUseId: the one in the map, else the counter, which then advances
toolCallIndex(map, counter, id) ==
  IF id \in DOMAIN map THEN [index |-> map[id], map |-> map, counter |-> counter]
  ELSE [index |-> counter, map |-> (id :> counter) @@ map, counter |-> counter + 1]

\* an input of an unknown toolUseId goes out under index 0
deltaIndexOrZero(map, id) == IF id \in DOMAIN map THEN map[id] ELSE 0

\* toolCallIndexMap.get(message.toolUseId): NoIndex for undefined
deltaIndex(map, id) == IF id \in DOMAIN map THEN map[id] ELSE NoIndex

\* processMessage; st = [buffer, offset, events, map, counter]
processMessage(st, code, n) ==
  LET m == Message(code)
      s1 == IF m.content
              THEN [st EXCEPT !.events = Append(@, FrameEvent("text", n, 0, NoIndex))]
              ELSE st
      a == toolCallIndex(s1.map, s1.counter, m.toolUseId)
      s2 == IF m.name /\ m.toolUseId # 0
              THEN [s1 EXCEPT !.map = a.map, !.counter = a.counter,
                              !.events = Append(@, FrameEvent("tool_call_start", n,
                                                              m.toolUseId, a.index))]
              ELSE s1
      d == deltaIndex(s2.map, m.toolUseId)
  IN IF m.input /\ m.toolUseId # 0 /\ d # NoIndex
       THEN [s2 EXCEPT !.events = Append(@, FrameEvent("tool_call_delta", n,
                                                       m.toolUseId, d))]
       ELSE s2

\* the frame stays in the buffer but for its first byte
discardOneByte(st, total) == [st EXCEPT !.buffer = Tail(@), !.offset = @ + 1]

\* buffer = buffer.slice(totalLength), done before the frame is parsed
discard(st, total) ==
  [st EXCEPT !.buffer = SubSeq(@, total + 1, Len(@)), !.offset = @ + total]

\* the while loop of the 'data' handler
RECURSIVE parseLoop(_)
parseLoop(st) ==
  IF Len(st.buffer) < MinTotalLength THEN st
  ELSE LET total == readUInt32BE(st.buffer, 0)
       IN IF total < MinTotalLength \/ total > MaxTotalLength
            THEN parseLoop([st EXCEPT !.buffer = Tail(@), !.offset = @ + 1])
          ELSE IF Len(st.buffer) < total THEN st
          ELSE LET messageData == SubSeq(st.buffer, 1, total)
                   rest == discard(st, total)
                   parsed == parseSingleMessage(messageData)
               IN IF parsed.threw \/ parsed.message = NotJson
                    THEN parseLoop(rest)
                    ELSE parseLoop(processMessage(rest, parsed.message, st.offset))

\* a response stream of a few frames
FrameInit ==
  /\ GatewayAtRest
  /\ LedgerAtRest
  /\ BenchAtRest
  /\ client = "handleStreamResponse"
  /\ \E k \in 1..MaxFrames : \E frs \in [1..k -> FrameShapes] :
       /\ frames = frs
       /\ upstream = encodeAll(frs)
  /\ buffer = <<>>
  /\ toolCalls = <<>>
  /\ toolCallIndexMap = <<>>
  /\ indexCounter = 0

\* sizes of the chunks the socket hands over, besides all that is left
ChunkSizes == {7, 17}

\* the 'data' handler parsing each chunk on its own
onDataChunkOnly(size) ==
  /\ client = "handleStreamResponse"
  /\ pc = "idle"
  /\ size \in 1..Len(upstream)
  /\ LET st == parseLoop([buffer |-> SubSeq(upstream, 1, size),
                          offset |-> Len(encodeAll(frames)) - Len(upstream),
                          events |-> events,
                          map |-> toolCallIndexMap,
                          counter |-> indexCounter])
     IN /\ buffer' = st.buffer
        /\ events' = st.events
        /\ toolCallIndexMap' = st.map
        /\ indexCounter' = st.counter
  /\ upstream' = SubSeq(upstream, size + 1, Len(upstream))
  /\ UNCHANGED <<pc, toolCalls>>
  /\ ParserFrame

\* response.on('data'): the chunk is appended and the buffer parsed as far as it goes
onData(size) ==
  /\ client = "handleStreamResponse"
  /\ pc = "idle"
  /\ size \in 1..Len(upstream)
  /\ LET st == parseLoop([buffer |-> buffer \o SubSeq(upstream, 1, size),
                          offset |-> Len(encodeAll(frames)) - Len(upstream) - Len(buffer),
                          events |-> events,
                          map |-> toolCallIndexMap,
                          counter |-> indexCounter])
     IN /\ buffer' = st.buffer
        /\ events' = st.events
        /\ toolCallIndexMap' = st.map
        /\ indexCounter' = st.counter
  /\ upstream' = SubSeq(upstream, size + 1, Len(upstream))
  /\ UNCHANGED <<pc, toolCalls>>
  /\ ParserFrame

\* response.on('end')
onEnd ==
  /\ client = "handleStreamResponse"
  /\ pc = "idle"
  /\ upstream = <<>>
  /\ pc' = "done"
  /\ UNCHANGED <<events, upstream, buffer, toolCalls, toolCallIndexMap, indexCounter>>
  /\ ParserFrame

FrameNext ==
  \/ \E size \in ChunkSizes \cup {Len(upstream)} : onData(size)
  \/ onEnd

\* a response stream read by one of the three stream handlers
StreamInit == TextInit \/ FrameInit
StreamNext == TextNext \/ FrameNext
StreamSpec == StreamInit /\ [][StreamNext]_vars

\* ------------------------------------------------ order of the delivered events
\* the places in the upstream stream of the parts an event was made from
Producers(e) ==
  IF e.type = "tool_calls" THEN {e.tool_calls[k].n : k \in DOMAIN e.tool_calls} ELSE {e.n}
\* parts of a text stream make at most one event each; a binary message may make
\* several
Precedes(a, b) == IF client = "handleStreamResponse" THEN a <= b ELSE a < b
InArrivalOrder(calls) == \A k, l \in DOMAIN calls : k < l => calls[k].n < calls[l].n

\* C26 as stated: the events delivered to the caller are in the order in which the
\* parts that produced them appear in the upstream stream.
C26_UpstreamOrder ==
  /\ \A i, j \in DOMAIN events :
       i < j => \A a \in Producers(events[i]), b \in Producers(events[j]) : Precedes(a, b)
  /\ \A i \in DOMAIN events :
       events[i].type = "tool_calls" => InArrivalOrder(events[i].tool_calls)

\* C26 amended: events are in the order of the parts that produced them, except
\* that the function calls of a text stream are held back and delivered together, in
\* arrival order, when a record with a finish reason has been processed: a tool_calls
\* event may follow events of parts that came after its calls, and every event after
\* it comes from later parts.
C26_OrderExceptHeldCalls ==
  /\ \A i, j \in DOMAIN events :
       (i < j /\ (events[j].type # "tool_calls" \/ events[i].type = "tool_calls"))
         => \A a \in Producers(events[i]), b \in Producers(events[j]) : Precedes(a, b)
  /\ \A i \in DOMAIN events :
       events[i].type = "tool_calls" => InArrivalOrder(events[i].tool_calls)

\* two held function calls are delivered after the text of a later part
C26_Witness ==
  /\ pc = "done"
  /\ client = "generateResponse"
  /\ \E i, j \in DOMAIN events :
       /\ i < j
       /\ events[i].type = "text"
       /\ events[j].type = "tool_calls"
       /\ Len(events[j].tool_calls) = 2
       /\ \A k \in DOMAIN events[j].tool_calls : events[j].tool_calls[k].n < events[i].n

DeliveredCalls ==
  {<<i, k>> \in (DOMAIN events) \X (1..(MaxLines * MaxParts)) :
     events[i].type = "tool_calls" /\ k \in DOMAIN events[i].tool_calls}

\* C30: in the text stream parsers a functionCall part produces no event of its own;
\* a tool_calls event carries the pending calls in arrival order, each with the
\* thought signature of its part, the calls it carries are no longer pending, and no
\* call is delivered twice.
C30_HeldCallsDeliveredOnce ==
  client \in {"generateResponse", "generateAssistantResponse"} =>
    /\ \A i \in DOMAIN events :
         /\ events[i].type # "tool_calls"
              => ~\E i2 \in DOMAIN frames : \E j \in DOMAIN frames[i2].parts :
                    frames[i2].parts[j].n = events[i].n /\ frames[i2].parts[j].kind = "functionCall"
         /\ events[i].type = "tool_calls"
              => /\ events[i].tool_calls # <<>>
                 /\ InArrivalOrder(events[i].tool_calls)
    /\ \A d \in DeliveredCalls :
         LET call == events[d[1]].tool_calls[d[2]]
         IN /\ \E i2 \in DOMAIN frames : \E j \in DOMAIN frames[i2].parts :
                 /\ frames[i2].parts[j].n = call.n
                 /\ frames[i2].parts[j].kind = "functionCall"
                 /\ call.thought_signature = frames[i2].parts[j].sig
            /\ \A k \in DOMAIN toolCalls : toolCalls[k].n # call.n
            /\ \A e \in DeliveredCalls : e # d => events[e[1]].tool_calls[e[2]].n # call.n

\* ------------------------------------------------ the binary stream's events
\* the place of frame i in the stream, and the bytes the parser is done with
Offset(i) == Len(encodeAll(SubSeq(frames, 1, i - 1)))
BytesParsed == Len(encodeAll(frames)) - Len(upstream) - Len(buffer)
FrameDone(i) == Offset(i) + Len(encode(frames[i])) <= BytesParsed
Starts == {i \in DOMAIN events : events[i].type = "tool_call_start"}

\* C27: a frame whose header length exceeds its total length yields no event, and
\* the well-formed frame after it is parsed and its events delivered.
C27_MalformedFrameSkipped ==
  client = "handleStreamResponse" =>
    \A i \in DOMAIN frames :
      frames[i].type = "bad_header" =>
        /\ \A k \in DOMAIN events : events[k].n # Offset(i)
        /\ (i < Len(frames) /\ frames[i + 1].type = "message" /\ FrameDone(i + 1))
             => LET m == Message(frames[i + 1].code)
                IN /\ m.content
                        => \E k \in DOMAIN events :
                             events[k].type = "text" /\ events[k].n = Offset(i + 1)
                   /\ (m.name /\ m.toolUseId # 0)
                        => \E k \in DOMAIN events :
                             /\ events[k].type = "tool_call_start"
                             /\ events[k].n = Offset(i + 1)
                             /\ events[k].id = m.toolUseId

\* a malformed frame between two messages, all three parsed
C27_Witness ==
  /\ client = "handleStreamResponse"
  /\ pc = "done"
  /\ Len(frames) = 3
  /\ frames[1].type = "message"
  /\ frames[2].type = "bad_header"
  /\ frames[3].type = "message"
  /\ Len(events) = 2
  /\ events[1].n = Offset(1)
  /\ events[2].n = Offset(3)

\* C28: the index of a tool_call_start event is the number of distinct toolUseIds
\* started before it when its toolUseId is new, and the index first given to its
\* toolUseId otherwise.
C28_SequentialIndices ==
  client = "handleStreamResponse" =>
    \A i \in Starts :
      LET earlier == {j \in Starts : j < i}
          known == {events[j].id : j \in earlier}
      IN IF events[i].id \in known
           THEN \A j \in earlier : events[j].id = events[i].id => events[j].index = events[i].index
           ELSE events[i].index = Cardinality(known)

\* three starts, the third of the toolUseId of the first
C28_Witness ==
  /\ client = "handleStreamResponse"
  /\ pc = "done"
  /\ Len(events) = 3
  /\ \A i \in 1..3 : events[i].type = "tool_call_start"
  /\ events[1].id # events[2].id
  /\ events[3].id = events[1].id
  /\ <<events[1].index, events[2].index, events[3].index>> = <<0, 1, 0>>

\* C29: a tool_call_delta event follows a tool_call_start event of the same toolUseId
\* and carries its index; a message with an input whose toolUseId has not been
\* started yields no tool_call_delta event.
C29_DeltaAfterStart ==
  client = "handleStreamResponse" =>
    /\ \A i \in DOMAIN events :
         events[i].type = "tool_call_delta"
           => \E j \in Starts :
                j < i /\ events[j].id = events[i].id /\ events[j].index = events[i].index
    /\ \A i \in DOMAIN frames :
         LET m == Message(frames[i].code)
         IN (/\ frames[i].type = "message"
             /\ m.input
             /\ m.toolUseId # 0
             /\ ~\E j \in 1..i : /\ frames[j].type = "message"
                                 /\ Message(frames[j].code).name
                                 /\ Message(frames[j].code).toolUseId = m.toolUseId)
              => ~\E k \in DOMAIN events :
                    events[k].type = "tool_call_delta" /\ events[k].n = Offset(i)

\* an input before its toolUseId is started is dropped, the one after goes out
C29_Witness ==
  /\ client = "handleStreamResponse"
  /\ pc = "done"
  /\ Len(frames) = 3
  /\ \A i \in 1..3 : frames[i].type = "message" /\ Message(frames[i].code).toolUseId = 2
  /\ Message(frames[1].code).input /\ ~Message(frames[1].code).name
  /\ Message(frames[3].code).input /\ ~Message(frames[3].code).name
  /\ Len(events) = 2
  /\ events[1].type = "tool_call_start"
  /\ events[2].type = "tool_call_delta"
  /\ events[2].n = Offset(3)
  /\ events[2].index = events[1].index

\* ------------------------------------------------ discarded frames, stream end
\* the bytes of the response the handler has been given
Received == Len(encodeAll(frames)) - Len(upstream)

C39_NoCallLeftBehind ==
  (pc = "done" /\ client \in {"generateResponse", "generateAssistantResponse"}) =>
    /\ toolCalls = <<>>
    /\ \A i \in DOMAIN frames : \A j \in DOMAIN frames[i].parts :
         (frames[i].data /\ frames[i].json /\ frames[i].parts[j].kind = "functionCall")
           => \E d \in DeliveredCalls :
                events[d[1]].tool_calls[d[2]].n = frames[i].parts[j].n

MaxRequests == 3
Requests == 1..MaxRequests
\* the accounts the requests are sent with: a dedicated and a shared one
MeteredAccounts == {1, 2}

\* no request is under way and the cache agrees with the upstream
MeterInit ==
  /\ GatewayAtRest
  /\ LedgerAtRest
  /\ ParserAtRest
  /\ inflight = {}
  /\ remaining = [c \in Creds |-> MaxQuota]
  /\ arg = Requests
  /\ result = <<>>

MeterFrame ==
  /\ UNCHANGED <<status, need_refresh, expired, envSteps, request, ledger, parser, result>>

\* a call of generateResponse with account c reads quotaBefore from the cache and
\* sends its attempt (arg: the requests not yet made)
beginRequest(id, c) ==
  /\ id \in arg
  /\ arg' = arg \ {id}
  /\ inflight' = inflight \cup {[id |-> id, account |-> c, quotaBefore |-> quota[c],
                                 served |-> FALSE]}
  /\ UNCHANGED <<quota, pool, records, remaining>>
  /\ MeterFrame

\* the upstream answers the attempt and takes d off the account's remaining fraction
serveRequest(t, d) ==
  /\ t \in inflight
  /\ ~t.served
  /\ d <= remaining[t.account]
  /\ remaining' = [remaining EXCEPT ![t.account] = @ - d]
  /\ inflight' = (inflight \ {t}) \cup {[t EXCEPT !.served = TRUE]}
  /\ UNCHANGED <<quota, pool, records, arg>>
  /\ MeterFrame

\* the stream is over: updateQuotaAfterCompletion polls the usage endpoint (ok: the
\* poll succeeds and the cache is updated), quotaAfter is read from the cache and
\* the consumption is recorded
completeRequest(t, ok) ==
  /\ t \in inflight
  /\ t.served
  /\ LET quotaAfter == IF ok THEN remaining[t.account] ELSE quota[t.account]
     IN /\ quota' = [quota EXCEPT ![t.account] = quotaAfter]
        /\ records' = Append(records, ConsumptionRecord(t.account, t.quotaBefore, quotaAfter))
        /\ pool' = recordQuotaConsumption(pool, t.account, t.quotaBefore, quotaAfter)
  /\ inflight' = inflight \ {t}
  /\ UNCHANGED <<remaining, arg>>
  /\ MeterFrame

MeterNext ==
  \/ \E id \in Requests, c \in MeteredAccounts : beginRequest(id, c)
  \/ \E t \in inflight, d \in 1..MaxQuota : serveRequest(t, d)
  \/ \E t \in inflight, ok \in BOOLEAN : completeRequest(t, ok)

MeterSpec == MeterInit /\ [][MeterNext]_vars

RECURSIVE RecordedFor(_, _)
RecordedFor(recs, c) ==
  IF recs = <<>> THEN 0
  ELSE (IF Head(recs).cookie_id = c THEN Head(recs).quota_consumed ELSE 0)
         + RecordedFor(Tail(recs), c)

\* C38: the consumption recorded for an account, over all requests sent with it, is
\* at most what the account's remaining fraction went down by at the upstream.
C38_NoDoubleCounting ==
  \A c \in MeteredAccounts : RecordedFor(records, c) <= MaxQuota - remaining[c]

\* ------------------------------------------------ the converters of the request body
\* (normalizeJsonSchema, openaiMessageToAntigravity and the two directions of a tool
\* call; each is applied to an argument drawn from a bounded set)
\* a JSON value: a scalar, an array (a function from its indices, written as
\* keys), or an object (a function from its keys)
NoMembers == [k \in {} |-> ""]
IndexKeys == <<"0", "1">>
Atom(v) == [t |-> "atom", atom |-> v, v |-> NoMembers]
Arr(items) ==
  [t |-> "array", atom |-> "",
   v |-> [k \in {IndexKeys[i] : i \in DOMAIN items} |->
            items[CHOOSE i \in DOMAIN items : IndexKeys[i] = k]]]
Obj(members) == [t |-> "object", atom |-> "", v |-> members]

UNSUPPORTED_SCHEMA_KEYS ==
  {"$schema", "$id", "$defs", "definitions",
   "allOf", "anyOf", "oneOf", "not", "if", "then", "else",
   "pattern", "patternProperties", "propertyNames",
   "minLength", "maxLength",
   "minItems", "maxItems", "uniqueItems", "contains",
   "minimum", "maximum", "exclusiveMinimum", "exclusiveMaximum", "multipleOf",
   "dependentSchemas", "dependentRequired",
   "additionalItems", "unevaluatedItems", "unevaluatedProperties"}

\* no key is deleted from the copy
keepAllKeys(keys) == keys

\* the keys left in normalized after the loop that deletes the unsupported ones
keptKeys(keys) == keys \ UNSUPPORTED_SCHEMA_KEYS

\* normalizeJsonSchema: what it returns
RECURSIVE normalizeJsonSchema(_)
normalizeJsonSchema(schema) ==
  IF schema.t = "atom" THEN schema
  ELSE IF schema.t = "array"
    THEN [schema EXCEPT !.v = [i \in DOMAIN schema.v |-> normalizeJsonSchema(schema.v[i])]]
  ELSE Obj([k \in keptKeys(DOMAIN schema.v) |->
         IF k = "properties"
           THEN (IF schema.v[k].t = "object"
                   THEN Obj([q \in DOMAIN schema.v[k].v |->
                               normalizeJsonSchema(schema.v[k].v[q])])
                   ELSE schema.v[k])
         ELSE IF k = "items" THEN normalizeJsonSchema(schema.v[k])
         ELSE IF k = "additionalProperties" /\ schema.v[k].t # "atom"
           THEN normalizeJsonSchema(schema.v[k])
         ELSE schema.v[k]])

\* a call of normalizeJsonSchema: what it returns and the argument object as the
\* call leaves it (every write goes to the copy made by { ...schema } or to an
\* object the call created)
normalizeJsonSchemaCall(schema) ==
  [returned |-> normalizeJsonSchema(schema), schema |-> schema]

\* nesting of the schemas
MaxDepth == 2
\* the keywords of a schema without sub-schemas
KeywordSets ==
  {{"type"}, {"type", "minLength", "required"}, {"$schema", "description", "enum", "not"},
   {"default", "format", "pattern"}}
Leaves == {Obj([k \in ks |-> Atom("v")]) : ks \in KeywordSets}
With(o, k, val) == Obj((k :> val) @@ o.v)
\* properties: an object with a property named like an unsupported keyword, one
\* with two properties, or (not a schema map) an array
PropertiesOf(sub) ==
  {Obj("pattern" :> c) : c \in sub}
    \cup {Obj(("name" :> c) @@ ("minLength" :> c)) : c \in sub}
    \cup {Arr(<<c>>) : c \in sub}
ItemsOf(sub) == sub \cup {Arr(<<c>>) : c \in sub} \cup {Atom("v")}
AdditionalOf(sub) == sub \cup {Atom("v")}
RECURSIVE Schemas(_)
Schemas(d) ==
  IF d = 0 THEN Leaves
  ELSE LET sub == Schemas(d - 1)
       IN Leaves
            \cup {With(l, "properties", x) : l \in Leaves, x \in PropertiesOf(sub)}
            \cup {With(l, "items", x) : l \in Leaves, x \in ItemsOf(sub)}
            \cup {With(l, "additionalProperties", x) : l \in Leaves, x \in AdditionalOf(sub)}
            \cup {With(With(With(l, "properties", Obj("pattern" :> c)), "items", Arr(<<c>>)),
                       "additionalProperties", c) : l \in Leaves, c \in sub}

ConvertFrame ==
  /\ UNCHANGED <<store, envSteps, kind, prefer_shared, account, quotaBefore,
                 excludeCookieIds, retryCount, endpointIndex, firstError403Type,
                 catchStack, events, outcome, tried, selectCall, project, ledger, parser,
                 inflight, remaining, arg>>

SchemaInit ==
  /\ GatewayAtRest
  /\ LedgerAtRest
  /\ ParserAtRest
  /\ inflight = {}
  /\ remaining = <<>>
  /\ \E x \in Schemas(MaxDepth) : arg = [fn |-> "normalizeJsonSchema", value |-> x]
  /\ result = <<>>

\* convertOpenAIToolsToAntigravity normalizes the parameters of a tool
normalizeParameters ==
  /\ pc = "idle"
  /\ arg.fn = "normalizeJsonSchema"
  /\ result' = normalizeJsonSchemaCall(arg.value)
  /\ pc' = "done"
  /\ ConvertFrame

\* ---- openaiMessageToAntigravity
\* messages of one conversation
MaxMessages == 3
\* tool call ids; NoId stands for a missing id
ToolIds == {1, 2}
NoId == 0

\* the OpenAI messages the converter tells apart: a user message with text, with
\* an empty string or with an image; an assistant message with or without text
\* and with tool calls (with or without id), a tool message, a system message
OpenAIMessages ==
  [role : {"user"}, content : {"text", "", "image"}, tool_calls : {<<>>},
   tool_call_id : {NoId}]
    \cup [role : {"assistant"}, content : {"text", "null"},
          tool_calls : {<<>>, <<1>>, <<NoId>>, <<1, 2>>}, tool_call_id : {NoId}]
    \cup [role : {"tool"}, content : {"text"}, tool_calls : {<<>>},
          tool_call_id : ToolIds \cup {NoId}]
    \cup [role : {"system"}, content : {"text"}, tool_calls : {<<>>},
          tool_call_id : {NoId}]

TextPart == [kind |-> "text", id |-> NoId, name |-> ""]
ImagePart == [kind |-> "inlineData", id |-> NoId, name |-> ""]
FunctionCallPart(id) == [kind |-> "functionCall", id |-> id, name |-> "tool"]
FunctionResponsePart(id, name) == [kind |-> "functionResponse", id |-> id, name |-> name]
Turn(role, parts) == [role |-> role, parts |-> parts]

isInvalidAssistantMessage(m) ==
  m.role = "assistant" /\ m.tool_calls = <<>> /\ m.content \in {"null", "", "{"}

\* Array.prototype.filter
RECURSIVE SelectSeqOf(_, _)
SelectSeqOf(seq, keep) ==
  IF seq = <<>> THEN <<>>
  ELSE (IF Head(seq) \in keep THEN <<Head(seq)>> ELSE <<>>) \o SelectSeqOf(Tail(seq), keep)

handleUserMessage(m, msgs) ==
  Append(msgs, Turn("user", IF m.content = "image" THEN <<ImagePart>> ELSE <<TextPart>>))

handleAssistantMessage(m, msgs) ==
  LET hasToolCalls == m.tool_calls # <<>>
      hasContent == m.content = "text"
      antigravityTools == [i \in DOMAIN m.tool_calls |-> FunctionCallPart(m.tool_calls[i])]
      parts == (IF hasContent THEN <<TextPart>> ELSE <<>>) \o antigravityTools
  IN IF msgs # <<>> /\ msgs[Len(msgs)].role = "model" /\ hasToolCalls /\ ~hasContent
       THEN [msgs EXCEPT ![Len(msgs)].parts = @ \o antigravityTools]
       ELSE Append(msgs, Turn("model", IF parts = <<>> THEN <<TextPart>> ELSE parts))

handleToolCall(m, msgs) ==
  LET known == \E i \in DOMAIN msgs : \E j \in DOMAIN msgs[i].parts :
                 /\ msgs[i].role = "model"
                 /\ msgs[i].parts[j].kind = "functionCall"
                 /\ msgs[i].parts[j].id = m.tool_call_id
      functionResponse == FunctionResponsePart(m.tool_call_id, IF known THEN "tool" ELSE "")
  IN IF /\ msgs # <<>>
        /\ msgs[Len(msgs)].role = "user"
        /\ \E j \in DOMAIN msgs[Len(msgs)].parts :
             msgs[Len(msgs)].parts[j].kind = "functionResponse"
       THEN [msgs EXCEPT ![Len(msgs)].parts = Append(@, functionResponse)]
       ELSE Append(msgs, Turn("user", <<functionResponse>>))

\* the loop over filteredMessages
RECURSIVE convertMessages(_, _)
convertMessages(messages, msgs) ==
  IF messages = <<>> THEN msgs
  ELSE LET m == Head(messages)
       IN convertMessages(Tail(messages),
            IF m.role = "user" THEN handleUserMessage(m, msgs)
            ELSE IF m.role = "assistant" THEN handleAssistantMessage(m, msgs)
            ELSE IF m.role = "tool" THEN handleToolCall(m, msgs)
            ELSE msgs)

\* the ids of the functionCall parts of the model turns
functionCallIds(msgs) ==
  {id \in ToolIds : \E i \in DOMAIN msgs : \E j \in DOMAIN msgs[i].parts :
     /\ msgs[i].role = "model"
     /\ msgs[i].parts[j].kind = "functionCall"
     /\ msgs[i].parts[j].id = id}

\* every functionResponse part is kept
removeOrphansKeepsAll(msgs, ids) == msgs

\* the functionResponse parts whose id is not the id of a functionCall are removed
removeOrphans(msgs, ids) ==
  [i \in DOMAIN msgs |->
     IF msgs[i].role = "user"
       THEN [msgs[i] EXCEPT !.parts =
               SelectSeqOf(@, {x \in {@[j] : j \in DOMAIN @} :
                                 ~(x.kind = "functionResponse" /\ x.id # NoId /\ x.id \notin ids)})]
       ELSE msgs[i]]

\* the user turns left without parts are removed
cleanedMessages(msgs) ==
  SelectSeqOf(msgs, {x \in {msgs[i] : i \in DOMAIN msgs} :
                       ~(x.role = "user" /\ x.parts = <<>>)})

openaiMessageToAntigravity(openaiMessages, isCompletionModel) ==
  IF isCompletionModel THEN <<Turn("user", <<TextPart>>)>>
  ELSE LET filteredMessages ==
             SelectSeqOf(openaiMessages,
                         {m \in OpenAIMessages : ~isInvalidAssistantMessage(m) /\ m.role # "system"})
           antigravityMessages == convertMessages(filteredMessages, <<>>)
       IN cleanedMessages(removeOrphans(antigravityMessages,
                                        functionCallIds(antigravityMessages)))

MessagesInit ==
  /\ GatewayAtRest
  /\ LedgerAtRest
  /\ ParserAtRest
  /\ inflight = {}
  /\ remaining = <<>>
  /\ \E n \in 1..MaxMessages : \E ms \in [1..n -> OpenAIMessages] : \E b \in BOOLEAN :
       arg = [fn |-> "openaiMessageToAntigravity", value |-> ms, isCompletionModel |-> b]
  /\ result = <<>>

\* generateRequestBody converts the messages of the request
convertContents ==
  /\ pc = "idle"
  /\ arg.fn = "openaiMessageToAntigravity"
  /\ result' = openaiMessageToAntigravity(arg.value, arg.isCompletionModel)
  /\ pc' = "done"
  /\ ConvertFrame

\* ---- a tool call out to the upstream and back
\* JSON texts: a number literal, a string, null, an array, an object (its members
\* in the order written, a key possibly twice), or a text that is not JSON
NumberText(lit) == [t |-> "number", lit |-> lit, v |-> <<>>]
StringText == [t |-> "string", lit |-> "s", v |-> <<>>]
NullText == [t |-> "null", lit |-> "null", v |-> <<>>]
ArrayText(items) ==
  [t |-> "array", lit |-> "", v |-> [i \in DOMAIN items |-> <<IndexKeys[i], items[i]>>]]
ObjectText(members) == [t |-> "object", lit |-> "", v |-> members]
InvalidText == [t |-> "invalid", lit |-> "{", v |-> <<>>]
MemberKeys == <<"a", "b">>

ScalarTexts == {NumberText("1"), NumberText("1.0"), NumberText("1e400"), StringText, NullText}
ArgumentTexts ==
  ScalarTexts
    \cup {ObjectText(<<>>), InvalidText}
    \cup {ArrayText(<<x>>) : x \in ScalarTexts}
    \cup {ObjectText(<<<<"a", x>>>>) : x \in ScalarTexts \cup {ArrayText(<<NumberText("1e400")>>)}}
    \cup {ObjectText(<<<<"a", x>>, <<k, y>>>>) : x \in ScalarTexts, y \in ScalarTexts, k \in {"a", "b"}}

\* the double a number literal is read as
NumberValue(lit) == IF lit = "1e400" THEN "Infinity" ELSE "1"

\* JSON.parse of a text that is JSON
RECURSIVE JSONparseText(_)
RECURSIVE parseMembers(_, _)
parseMembers(members, obj) ==
  IF members = <<>> THEN obj
  ELSE parseMembers(Tail(members),
                    (Head(members)[1] :> JSONparseText(Head(members)[2])) @@ obj)
JSONparseText(text) ==
  IF text.t = "number" THEN [t |-> "number", atom |-> NumberValue(text.lit), v |-> NoMembers]
  ELSE IF text.t \in {"array", "object"}
    THEN [t |-> text.t, atom |-> "", v |-> parseMembers(text.v, NoMembers)]
  ELSE [t |-> text.t, atom |-> text.lit, v |-> NoMembers]

\* JSON.stringify
RECURSIVE JSONstringify(_)
JSONstringify(value) ==
  IF value.t = "number"
    THEN (IF value.atom = "Infinity" THEN NullText ELSE NumberText(value.atom))
  ELSE IF value.t \in {"array", "object"}
    THEN [t |-> value.t, lit |-> "",
          v |-> LET keys == SelectSeqOf(IF value.t = "array" THEN IndexKeys ELSE MemberKeys,
                                        DOMAIN value.v)
                IN [i \in DOMAIN keys |-> <<keys[i], JSONstringify(value.v[keys[i]])>>]]
  ELSE [t |-> value.t, lit |-> value.atom, v |-> <<>>]

ToolCalls ==
  [id : {NoId, 1}, name : {"tool"}, arguments : ArgumentTexts, thought_signature : BOOLEAN]

\* the functionCall part handleAssistantMessage makes of a tool call
functionCallObj(call) ==
  [id |-> call.id,
   name |-> call.name,
   args |-> IF call.arguments.t = "invalid" THEN Obj(NoMembers)
            ELSE JSONparseText(call.arguments),
   thoughtSignature |-> call.thought_signature]

\* the tool call the stream loop of generateResponse makes of a functionCall part
toolCallOfPart(part) ==
  [id |-> part.id,
   name |-> part.name,
   arguments |-> JSONstringify(part.args),
   thought_signature |-> part.thoughtSignature]

ToolCallInit ==
  /\ GatewayAtRest
  /\ LedgerAtRest
  /\ ParserAtRest
  /\ inflight = {}
  /\ remaining = <<>>
  /\ \E call \in ToolCalls : arg = [fn |-> "toolCall", value |-> call]
  /\ result = <<>>

\* outbound: the assistant message's tool call becomes a functionCall part
sendToolCall ==
  /\ pc = "idle"
  /\ arg.fn = "toolCall"
  /\ result' = functionCallObj(arg.value)
  /\ pc' = "converted"
  /\ ConvertFrame

\* inbound: the part comes back on the response stream and becomes a tool call
receiveFunctionCall ==
  /\ pc = "converted"
  /\ arg.fn = "toolCall"
  /\ result' = toolCallOfPart(result)
  /\ pc' = "done"
  /\ ConvertFrame

ConvertInit == SchemaInit \/ MessagesInit \/ ToolCallInit
ConvertNext ==
  \/ normalizeParameters
  \/ convertContents
  \/ sendToolCall
  \/ receiveFunctionCall
ConvertSpec == ConvertInit /\ [][ConvertNext]_vars

\* ------------------------------------------------ what the converters return
Converted(fn) == pc = "done" /\ arg.fn = fn

\* C31: in the list openaiMessageToAntigravity returns, every functionResponse part
\* with an id has the id of a functionCall part of a model turn of the list, and no
\* user turn is without parts.
C31_NoOrphanResponses ==
  Converted("openaiMessageToAntigravity") =>
    \A i \in DOMAIN result :
      /\ result[i].role = "user" => result[i].parts # <<>>
      /\ \A j \in DOMAIN result[i].parts :
           (result[i].parts[j].kind = "functionResponse" /\ result[i].parts[j].id # NoId)
             => \E k \in DOMAIN result : \E l \in DOMAIN result[k].parts :
                  /\ result[k].role = "model"
                  /\ result[k].parts[l].kind = "functionCall"
                  /\ result[k].parts[l].id = result[i].parts[j].id

\* of two tool messages one answers a call of the conversation and is kept, the
\* other answers none and is gone
C31_Witness ==
  /\ Converted("openaiMessageToAntigravity")
  /\ ~arg.isCompletionModel
  /\ \E i, j \in DOMAIN arg.value :
       /\ arg.value[i].role = "tool" /\ arg.value[i].tool_call_id = 1
       /\ arg.value[j].role = "tool" /\ arg.value[j].tool_call_id = 2
  /\ \E i \in DOMAIN result : \E j \in DOMAIN result[i].parts :
       result[i].parts[j].kind = "functionResponse" /\ result[i].parts[j].id = 1
  /\ \A i \in DOMAIN result : \A j \in DOMAIN result[i].parts :
       result[i].parts[j].kind = "functionResponse" => result[i].parts[j].id # 2

\* C32: a tool call whose arguments are JSON comes back from the upstream part with
\* its id, its name, and arguments that parse to the value its arguments parse to.
C32_RoundTrip ==
  (Converted("toolCall") /\ arg.value.arguments.t # "invalid") =>
    /\ result.id = arg.value.id
    /\ result.name = arg.value.name
    /\ JSONparseText(result.arguments) = JSONparseText(arg.value.arguments)

\* the keywords normalizeJsonSchema is to keep
KeptKeywords == {"type", "description", "enum", "required", "default", "format"}

\* no unsupported keyword at the root or in a sub-schema reached through the
\* values of a properties object, through items or through additionalProperties
RECURSIVE Sanitized(_)
Sanitized(x) ==
  IF x.t = "atom" THEN TRUE
  ELSE IF x.t = "array" THEN \A k \in DOMAIN x.v : Sanitized(x.v[k])
  ELSE /\ DOMAIN x.v \cap UNSUPPORTED_SCHEMA_KEYS = {}
       /\ ("properties" \in DOMAIN x.v /\ x.v["properties"].t = "object")
            => \A q \in DOMAIN x.v["properties"].v : Sanitized(x.v["properties"].v[q])
       /\ "items" \in DOMAIN x.v => Sanitized(x.v["items"])
       /\ "additionalProperties" \in DOMAIN x.v => Sanitized(x.v["additionalProperties"])

\* the kept keywords and the names of the properties are those of the input, in
\* every sub-schema
RECURSIVE Preserved(_, _)
Preserved(in, out) ==
  IF in.t = "atom" THEN out = in
  ELSE IF in.t = "array"
    THEN /\ out.t = "array"
         /\ DOMAIN out.v = DOMAIN in.v
         /\ \A k \in DOMAIN in.v : Preserved(in.v[k], out.v[k])
  ELSE /\ out.t = "object"
       /\ DOMAIN out.v = DOMAIN in.v \ UNSUPPORTED_SCHEMA_KEYS
       /\ \A k \in DOMAIN in.v \cap KeptKeywords : out.v[k] = in.v[k]
       /\ ("properties" \in DOMAIN in.v /\ in.v["properties"].t = "object")
            => /\ DOMAIN out.v["properties"].v = DOMAIN in.v["properties"].v
               /\ \A q \in DOMAIN in.v["properties"].v :
                    Preserved(in.v["properties"].v[q], out.v["properties"].v[q])
       /\ "items" \in DOMAIN in.v => Preserved(in.v["items"], out.v["items"])
       /\ "additionalProperties" \in DOMAIN in.v
            => Preserved(in.v["additionalProperties"], out.v["additionalProperties"])

\* C33: the schema normalizeJsonSchema returns has no unsupported keyword at the root
\* or in a sub-schema reached through properties, items or additionalProperties;
\* type, description, enum, required, default and format and the names of the
\* properties are as in the input; the input object is as it was.
C33_SchemaSanitized ==
  Converted("normalizeJsonSchema") =>
    /\ Sanitized(result.returned)
    /\ Preserved(arg.value, result.returned)
    /\ result.schema = arg.value

\* a keyword goes at the root and in the schema of a property named pattern
C33_Witness ==
  /\ Converted("normalizeJsonSchema")
  /\ "minLength" \in DOMAIN arg.value.v
  /\ "properties" \in DOMAIN result.returned.v
  /\ result.returned.v["properties"].t = "object"
  /\ "pattern" \in DOMAIN result.returned.v["properties"].v
  /\ "not" \in DOMAIN arg.value.v["properties"].v["pattern"].v
  /\ "enum" \in DOMAIN result.returned.v["properties"].v["pattern"].v
  /\ "not" \notin DOMAIN result.returned.v["properties"].v["pattern"].v

====
